---- MODULE Spec2Model ----
(***************************************************************************)
(* FastEncodePro: the timeline rendering engine (TimelineRenderingEngine   *)
(* of src/FastEncodePro.py) as a state machine.                            *)
(*                                                                         *)
(* Times are integers counted in ticks of 1/TicksPerSecond second; with    *)
(* such (dyadic) times and an integer frame rate every float comparison    *)
(* and product of the source is exact, so frame i (time i / fps seconds)   *)
(* lies at or after a time of s ticks iff  s * fps <= TicksPerSecond * i.  *)
(***************************************************************************)
EXTENDS Integers, Sequences, FiniteSets, TLC

VARIABLES
    clips,            \* timeline.clips: sequence of TimelineClip
    fps,              \* settings['timeline_fps']
    pc,               \* position of the render thread
    disk,             \* what reading the free space of the two directories gives
    temp_dir,         \* "none", "out" (output directory) or "tmp" (tempfile.gettempdir())
    total_frames,
    segments,         \* the render plan
    frame_i,          \* _build_render_plan: the frame the for loop is at
    cur_clip,         \* _build_render_plan: current_clip, 0 for None
    seg_start_frame,  \* _build_render_plan: segment_start_frame
    seg_frames,       \* _build_render_plan: frames_in_segment
    seg_i,            \* index of the segment the video loop is at
    blank_i,          \* frames written so far by the blank loop of the segment
    frames_read,      \* frames_read of _stream_segment_to_encoder
    frames_processed, \* frames of the segments done, as render() counts them
    progress,         \* the last value passed to the progress callback, or None
    missing,          \* black frames the padding loop still has to write
    should_stop,      \* the cancellation flag
    user_stop,        \* stop() was called from the caller's thread
    stop_pc,          \* where the render thread was when stop() was called
    encoder_process,  \* "none" (None), "running", "exited", "killed"
    enc_stdin,        \* "none", "open", "closed"
    enc_rc,           \* return code of the video encoder
    decoder,          \* frame decoder of the segment: "none", "running", "exited", "killed"
    leaked,           \* frame decoders left running, neither killed nor waited for
    aenc,             \* audio encoder process
    aenc_rc,
    adec,             \* audio decoder process
    aseg_i,           \* index of the segment the audio loop is at
    audio_written,    \* some audio data was written to the audio encoder
    audio_success,    \* what _render_audio returned: "none", "True" or "False"
    merge,            \* merge process
    merge_rc,
    temp_video,       \* intermediate video file: "absent", "small" (< 1000 bytes), "ok"
    temp_audio,       \* intermediate audio file
    spawned,          \* kinds of subprocess started so far
    result,           \* <<>> while running, else <<success, message>>
    raised,           \* an exception left render()
    decoded,          \* per segment: decoded frames written to the encoder
    black,            \* per segment: black frames written to the encoder
    stream_end,       \* per segment: how streaming the clip ended
    project,          \* the project file: [saved, clips], clips the saved dicts
    media,            \* the media files that exist on disk
    loaded,           \* load_project has rebuilt the timeline from the project file
    warned,           \* files load_project reported as missing media
    timeline_duration, \* the application's timeline_duration, in ticks
    engine,           \* TimelineExportThread.engine is set (FALSE: it is None)
    frame_count,      \* _stream_segment_to_encoder: the frames asked of the decoder
    dec_frames,       \* frames the decoder has written to its stdout so far
    dec_stdout,       \* frames held by the decoder's stdout pipe
    dec_stderr,       \* diagnostics held by the decoder's stderr pipe
    dec_pending,      \* the write the decoder is in: "none", "frame", "diag"
    input_files,      \* len(self.input_files)
    current_file_index,
    encoding_threads, \* every EncodingThread created: [file, state]; the last is self.encoding_thread
    file_signals,     \* finished signals emitted and not yet delivered to file_done
    start_btn,        \* the start button is enabled
    stop_btn,         \* the stop button is enabled
    completions,      \* times encoding_done(True, ...) reported the batch complete
    export_timeline_btn,  \* the export button is enabled
    stop_export_btn,      \* the stop button is enabled
    threads,          \* the TimelineExportThreads started so far: "running",
                      \* "finished" or "terminated"; timeline_export_thread
                      \* is the last one
    posted,           \* finished signals emitted and not yet delivered to
                      \* the GUI thread (the index of the emitting thread)
    dialog            \* export_timeline is inside its modal dialogs

vars == <<clips, fps, pc, disk, temp_dir, total_frames, segments,
          frame_i, cur_clip, seg_start_frame, seg_frames,
          seg_i, blank_i, frames_read, missing, frames_processed, progress, should_stop, user_stop, stop_pc,
          encoder_process, enc_stdin, enc_rc, decoder, leaked, aenc, aenc_rc, adec,
          aseg_i, audio_written, audio_success, merge, merge_rc, temp_video, temp_audio, spawned, result, raised,
          decoded, black, stream_end, project, media, loaded, warned, timeline_duration, engine,
          frame_count, dec_frames, dec_stdout, dec_stderr, dec_pending,
          input_files, current_file_index, encoding_threads, file_signals, start_btn,
          stop_btn, completions,
          export_timeline_btn, stop_export_btn, threads, posted, dialog>>

(* what a render only reads: the timeline, the settings, the disks and the *)
(* project file                                                            *)
projectVars == <<project, media, loaded, warned, timeline_duration>>
appVars == <<export_timeline_btn, stop_export_btn, threads, posted, dialog>>
pipeVars == <<frame_count, dec_frames, dec_stdout, dec_stderr, dec_pending>>
batchVars == <<input_files, current_file_index, encoding_threads, file_signals, start_btn,
               stop_btn, completions>>
inputVars == <<clips, fps, disk, projectVars, appVars, engine, pipeVars, batchVars>>
planLoopVars == <<frame_i, cur_clip, seg_start_frame, seg_frames>>
planVars == <<total_frames, segments, planLoopVars>>
loopVars == <<seg_i, blank_i, frames_read, missing>>
progressVars == <<frames_processed, progress>>
stopVars == <<should_stop, user_stop, stop_pc>>
encVars == <<encoder_process, enc_stdin, enc_rc>>
decVars == <<decoder, leaked>>
audioVars == <<aenc, aenc_rc, adec, aseg_i, audio_written, audio_success>>
mergeVars == <<merge, merge_rc>>
fileVars == <<temp_video, temp_audio>>
ghostVars == <<decoded, black, stream_end>>

(* ------------------------------ bounds -------------------------------- *)
MaxClips == 2
MaxTrack == 1
MaxStart == 2
MaxOut == 2
MaxFps == 2
MaxSessions == 3
MaxFrameCount == 4
MaxFiles == 3
MaxThreads == 4
StdoutCapacity == 2
StderrCapacity == 2
TicksPerSecond == 2

InPoints == {0, 1}

(* --------------------------- TimelineClip ------------------------------ *)
(* the fields of a clip after __init__: out_point may lie at or before    *)
(* in_point (a full_duration that is not above in_point)                   *)
ClipValues ==
    { [track |-> t, start_time |-> s, in_point |-> i, out_point |-> o] :
        t \in 0..MaxTrack, s \in 0..MaxStart, i \in InPoints, o \in 0..MaxOut }

(* timeline.clips: every list of at most MaxClips clips *)
Timelines == UNION { [1..n -> ClipValues] : n \in 0..MaxClips }

get_trimmed_duration(clip) == clip.out_point - clip.in_point

get_end_time(clip) == clip.start_time + get_trimmed_duration(clip)

RECURSIVE MaxOf(_)
MaxOf(S) ==
    LET x == CHOOSE y \in S : TRUE
    IN  IF S = {x} THEN x
        ELSE LET m == MaxOf(S \ {x}) IN IF x > m THEN x ELSE m

(* the duration taken as the sum of the trimmed durations *)
RECURSIVE SumOfDurations(_, _)
SumOfDurations(cl, n) ==
    IF n = 0 THEN 0 ELSE get_trimmed_duration(cl[n]) + SumOfDurations(cl, n - 1)

get_timeline_duration_sum(cl) == SumOfDurations(cl, Len(cl))

(* FastEncodeProApp.update_timeline_duration: the value it stores *)
update_timeline_duration(cl) ==
    IF Len(cl) # 0 THEN SumOfDurations(cl, Len(cl)) ELSE 0

(* TimelineWidget.get_timeline_duration *)
TimelineWidget_get_timeline_duration(cl) ==
    IF Len(cl) = 0 THEN 0
    ELSE MaxOf({ get_end_time(cl[k]) : k \in 1..Len(cl) })

(* duration of the timeline, in ticks *)
get_timeline_duration(cl) ==
    IF Len(cl) = 0 THEN 0
    ELSE MaxOf({ get_end_time(cl[k]) : k \in 1..Len(cl) })

(* int(timeline_duration * timeline_fps): truncation toward zero *)
TotalFrames(cl, f) ==
    LET p == get_timeline_duration(cl) * f
    IN  IF p >= 0 THEN p \div TicksPerSecond ELSE -((-p) \div TicksPerSecond)

(* the interval of a clip taken closed at its end *)
ClipContainsEnd(clip, i, f) ==
    /\ clip.start_time * f <= TicksPerSecond * i
    /\ TicksPerSecond * i <= get_end_time(clip) * f

(* clip.start_time <= i / fps < clip.get_end_time() *)
ClipContains(clip, i, f) ==
    /\ clip.start_time * f <= TicksPerSecond * i
    /\ TicksPerSecond * i < get_end_time(clip) * f

(* the candidates sorted by track ascending: the lowest track wins *)
get_clip_lowest_track(cl, i, f) ==
    LET candidates == { k \in 1..Len(cl) : ClipContains(cl[k], i, f) }
    IN  IF candidates = {} THEN 0
        ELSE CHOOSE k \in candidates :
                \A j \in candidates :
                    \/ cl[j].track > cl[k].track
                    \/ (cl[j].track = cl[k].track /\ k <= j)

(* The clip visible at frame i, as its index in the clip list (a clip is   *)
(* compared by identity), 0 for None.  The candidates are collected in     *)
(* list order and sorted by track, descending, with a stable sort: the     *)
(* first of the highest-track candidates is returned.                      *)
get_clip_at_timeline_time(cl, i, f) ==
    LET candidates == { k \in 1..Len(cl) : ClipContains(cl[k], i, f) }
    IN  IF candidates = {} THEN 0
        ELSE CHOOSE k \in candidates :
                \A j \in candidates :
                    \/ cl[j].track < cl[k].track
                    \/ (cl[j].track = cl[k].track /\ k <= j)

Segment(current_clip, segment_start_frame, frames_in_segment) ==
    [ type |-> IF current_clip # 0 THEN "clip" ELSE "blank",
      clip |-> current_clip,
      start_frame |-> segment_start_frame,
      count |-> frames_in_segment ]

(* the for loop of _build_render_plan from frame i on *)
RECURSIVE PlanLoop(_, _, _, _, _, _, _, _)
PlanLoop(cl, f, total, i, current_clip, segment_start_frame, frames_in_segment, segs) ==
    IF i >= total
    THEN IF frames_in_segment > 0
         THEN Append(segs, Segment(current_clip, segment_start_frame, frames_in_segment))
         ELSE segs
    ELSE LET visible_clip == get_clip_at_timeline_time(cl, i, f)
         IN  IF visible_clip # current_clip
             THEN PlanLoop(cl, f, total, i + 1, visible_clip, i, 1,
                           IF frames_in_segment > 0
                           THEN Append(segs, Segment(current_clip, segment_start_frame,
                                                     frames_in_segment))
                           ELSE segs)
             ELSE PlanLoop(cl, f, total, i + 1, current_clip, segment_start_frame,
                           frames_in_segment + 1, segs)

build_render_plan(cl, total, f) ==
    IF total = 0 THEN <<>>
    ELSE PlanLoop(cl, f, total, 0, 0, 0, 0, <<>>)

(* ------------------------- the project file --------------------------- *)
(* out_point=None, the default: a value below every time, which __init__   *)
(* treats as it treats an out_point <= 0                                   *)
None == -1

Files == {"a.mp4", "b.mp4"}

(* TimelineClip.__init__ with a duration given: an out_point that is None  *)
(* or <= 0 becomes full_duration, and so does one at or before in_point    *)
TimelineClip(file_path, track, start_time, in_point, out_point, duration) ==
    LET out1 == IF out_point = None THEN duration
                ELSE IF out_point <= 0 THEN duration ELSE out_point
        out2 == IF out1 <= in_point THEN duration ELSE out1
    IN  [file_path |-> file_path, track |-> track, start_time |-> start_time,
         in_point |-> in_point, out_point |-> out2, full_duration |-> duration]

(* "duration" written as the trimmed duration instead of full_duration *)
to_dict_trimmed_duration(clip) ==
    [file_path |-> clip.file_path, track |-> clip.track, start_time |-> clip.start_time,
     in_point |-> clip.in_point, out_point |-> clip.out_point,
     duration |-> clip.out_point - clip.in_point]

to_dict(clip) ==
    [file_path |-> clip.file_path, track |-> clip.track, start_time |-> clip.start_time,
     in_point |-> clip.in_point, out_point |-> clip.out_point,
     duration |-> clip.full_duration]

from_dict(data) ==
    TimelineClip(data.file_path, data.track, data.start_time, data.in_point,
                 data.out_point, data.duration)

(* the clips add_to_timeline and drag and drop can put on the timeline *)
OutPointArgs == {None} \cup (0..2)

Durations == 0..2

ProjectClips ==
    { TimelineClip(f, t, 0, i, o, d) :
        f \in Files, t \in 0..1, i \in InPoints, o \in OutPointArgs, d \in Durations }

ProjectTimelines == UNION { [1..n -> ProjectClips] : n \in 0..MaxClips }

(* --------------------------- render(): state --------------------------- *)
MinFreeOutputGB == 15
MinFreeTempGB == 10

(* what reading a directory's free space gives: a number of GB ("ok") or an *)
(* exception ("err"); "nodir": tempfile.gettempdir() finds no usable        *)
(* directory and raises                                                     *)
Reading(status, gb) == [status |-> status, gb |-> gb]

FreeGB == {9, 10, 15, 16}

DiskUsage == { Reading("ok", n) : n \in FreeGB } \cup { Reading("err", 0) }

AllDisks == [out : DiskUsage, tmp : DiskUsage \cup {Reading("nodir", 0)}]

InitEngineState(timelines, rates, disks, eng) ==
    /\ engine = eng
    /\ frame_count = 0
    /\ dec_frames = 0
    /\ dec_stdout = 0
    /\ dec_stderr = 0
    /\ dec_pending = "none"
    /\ input_files = 0
    /\ current_file_index = 0
    /\ encoding_threads = <<>>
    /\ file_signals = <<>>
    /\ start_btn = TRUE
    /\ stop_btn = FALSE
    /\ completions = 0
    /\ clips \in timelines
    /\ fps \in rates
    /\ disk \in disks
    /\ pc = "idle"
    /\ temp_dir = "none"
    /\ total_frames = 0
    /\ segments = <<>>
    /\ frame_i = 0
    /\ cur_clip = 0
    /\ seg_start_frame = 0
    /\ seg_frames = 0
    /\ seg_i = 0
    /\ blank_i = 0
    /\ frames_read = 0
    /\ missing = 0
    /\ frames_processed = 0
    /\ progress = None
    /\ should_stop = FALSE
    /\ user_stop = FALSE
    /\ stop_pc = "none"
    /\ encoder_process = "none"
    /\ enc_stdin = "none"
    /\ enc_rc = 0
    /\ decoder = "none"
    /\ leaked = 0
    /\ aenc = "none"
    /\ aenc_rc = 0
    /\ adec = "none"
    /\ aseg_i = 0
    /\ audio_written = FALSE
    /\ audio_success = "none"
    /\ merge = "none"
    /\ merge_rc = 0
    /\ temp_video = "absent"
    /\ temp_audio = "absent"
    /\ spawned = {}
    /\ result = <<>>
    /\ raised = FALSE
    /\ decoded = <<>>
    /\ black = <<>>
    /\ stream_end = <<>>
    /\ project = [saved |-> FALSE, clips |-> <<>>]
    /\ media = Files
    /\ loaded = FALSE
    /\ warned = {}
    /\ timeline_duration = update_timeline_duration(clips)
    /\ export_timeline_btn = TRUE
    /\ stop_export_btn = FALSE
    /\ threads = <<>>
    /\ posted = <<>>
    /\ dialog = FALSE

(* the state once run() has created the engine *)
InitState(timelines, rates, disks) == InitEngineState(timelines, rates, disks, TRUE)

InitWith(timelines, disks) == InitState(timelines, 1..MaxFps, disks)

(* the timelines and disks a whole render is followed on *)
Clip(t, s, i, o) == [track |-> t, start_time |-> s, in_point |-> i, out_point |-> o]

RenderTimelines ==
    { <<>>,
      <<Clip(0, 0, 0, 2)>>,
      <<Clip(0, 1, 0, 2)>>,
      <<Clip(0, 0, 0, 1), Clip(0, 2, 1, 2)>>,
      <<Clip(0, 0, 0, 2), Clip(1, 1, 0, 2)>>,
      <<Clip(0, 2, 1, 1)>>,
      <<Clip(0, 0, 1, 0)>> }

RenderDisks ==
    { [out |-> Reading("ok", 16), tmp |-> Reading("ok", 10)],
      [out |-> Reading("ok", 15), tmp |-> Reading("ok", 10)],
      [out |-> Reading("ok", 15), tmp |-> Reading("ok", 9)],
      [out |-> Reading("err", 0), tmp |-> Reading("nodir", 0)] }

Init == InitWith(RenderTimelines, RenderDisks)

(* An encoder (an external ffmpeg reading pipe:0) exits on its own with an *)
(* error at any time, with return code 0 only once its input has ended     *)
(* (its stdin was closed).                                                 *)
ExitCodes(input_ended) == IF input_ended THEN {0, 1} ELSE {1}

(* stop(): set the flag; close the encoder's stdin and kill the encoder,   *)
(* if there is one.  ep, rc: the encoder's state when stop() runs.  An     *)
(* encoder that runs is killed (-9), unless it ends on its own between the *)
(* close of its input and the kill.                                        *)
StopEffect(ep, rc) ==
    /\ should_stop' = TRUE
    /\ enc_stdin' = (IF ep = "none" THEN enc_stdin ELSE "closed")
    /\ IF ep = "running"
       THEN \E r \in {-9} \cup ExitCodes(TRUE) :
               /\ encoder_process' = (IF r = -9 THEN "killed" ELSE "exited")
               /\ enc_rc' = r
       ELSE /\ encoder_process' = ep
            /\ enc_rc' = rc

(* TimelineExportThread.stop with the engine set: engine.stop() is called  *)
(* from the caller's thread                                                *)
Stop ==
    /\ engine
    /\ pc # "done"
    /\ ~user_stop
    /\ user_stop' = TRUE
    /\ stop_pc' = pc
    /\ StopEffect(encoder_process, enc_rc)
    /\ UNCHANGED <<inputVars, progressVars, pc, temp_dir, planVars, loopVars, decVars, audioVars,
                   mergeVars, fileVars, spawned, result, raised, ghostVars>>

(* a return from inside the try block: the finally clause runs stop() *)
Return(success, message) ==
    /\ pc' = "done"
    /\ result' = <<success, message>>
    /\ StopEffect(encoder_process, enc_rc)
    /\ UNCHANGED <<user_stop, stop_pc>>

(* what a write to the video encoder's stdin does *)
EncoderWrite ==
    IF enc_stdin = "closed" THEN "ValueError"
    ELSE IF encoder_process = "running" THEN "ok"
    ELSE "BrokenPipeError"

(* ------------------------ render(): scratch ---------------------------- *)
(* lines 1008-1038; the output directory is not the temp directory.        *)
UseOutputDir(out) == out.status = "ok" /\ out.gb > MinFreeOutputGB

(* the hard minimum compared one GB too low *)
TempTooSmallOffByOne(tmp) == tmp.status = "ok" /\ tmp.gb + 1 < MinFreeTempGB

TempTooSmall(tmp) == tmp.status = "ok" /\ tmp.gb < MinFreeTempGB

RenderStart ==
    /\ pc = "idle"
    /\ engine
    /\ IF disk.tmp.status = "nodir"
       THEN /\ raised' = TRUE
            /\ pc' = "done"
            /\ UNCHANGED <<temp_dir, result>>
       ELSE IF UseOutputDir(disk.out)
       THEN /\ temp_dir' = "out"
            /\ pc' = "plan"
            /\ UNCHANGED <<result, raised>>
       ELSE /\ temp_dir' = "tmp"
            /\ IF TempTooSmall(disk.tmp)
               THEN /\ pc' = "done"
                    /\ result' = <<FALSE, "Insufficient disk space">>
               ELSE /\ pc' = "plan"
                    /\ UNCHANGED result
            /\ UNCHANGED raised
    /\ UNCHANGED <<inputVars, progressVars, planVars, loopVars, stopVars, encVars, decVars, audioVars,
                   mergeVars, fileVars, spawned, ghostVars>>

(* ------------------------- render(): planning -------------------------- *)
(* lines 1048-1067 *)
Zeros(n) == [k \in 1..n |-> 0]

Plan ==
    /\ pc = "plan"
    /\ IF Len(clips) = 0
       THEN /\ Return(FALSE, "No clips on timeline")
            /\ UNCHANGED <<planVars, spawned, ghostVars>>
       ELSE LET total == TotalFrames(clips, fps)
                plan == build_render_plan(clips, total, fps)
            IN  /\ total_frames' = total
                /\ segments' = plan
                /\ spawned' = spawned \cup {"probe"}
                /\ decoded' = Zeros(Len(plan))
                /\ black' = Zeros(Len(plan))
                /\ stream_end' = [k \in 1..Len(plan) |-> "none"]
                /\ pc' = "start_encoder"
                /\ UNCHANGED <<planLoopVars, stopVars, encVars, result>>
    /\ UNCHANGED <<inputVars, progressVars, temp_dir, loopVars, decVars, audioVars, mergeVars,
                   fileVars, raised>>

(* ---------------------- the video encoder process ---------------------- *)
(* _start_encoder, lines 1290-1310: Popen succeeds or raises *)
StartEncoder ==
    /\ pc = "start_encoder"
    /\ \/ /\ encoder_process' = "running"
          /\ enc_stdin' = "open"
          /\ spawned' = spawned \cup {"encoder"}
          /\ seg_i' = 1
          /\ pc' = "segment"
          /\ UNCHANGED <<enc_rc, stopVars, result>>
       \/ /\ Return(FALSE, "Failed to start encoder")
          /\ UNCHANGED <<seg_i, spawned>>
    /\ UNCHANGED <<inputVars, progressVars, temp_dir, planVars, blank_i, frames_read, missing,
                   decVars, audioVars, mergeVars, fileVars, raised, ghostVars>>

(* the encoder (an external ffmpeg reading pipe:0) exits on its own *)
EncoderExits ==
    /\ encoder_process = "running"
    /\ encoder_process' = "exited"
    /\ enc_rc' \in ExitCodes(enc_stdin = "closed")
    /\ UNCHANGED <<inputVars, progressVars, pc, temp_dir, planVars, loopVars, stopVars, enc_stdin,
                   decVars, audioVars, mergeVars, fileVars, spawned, result, raised,
                   ghostVars>>

(* the encoder creates and grows its output file *)
Grow(file) == IF file = "absent" THEN "small" ELSE "ok"

EncoderWritesFile ==
    /\ encoder_process = "running"
    /\ temp_video # "ok"
    /\ temp_video' = Grow(temp_video)
    /\ UNCHANGED <<inputVars, progressVars, pc, temp_dir, planVars, loopVars, stopVars, encVars,
                   decVars, audioVars, mergeVars, temp_audio, spawned, result, raised,
                   ghostVars>>

(* -------------------- render(): the video pass ------------------------ *)
(* lines 1093-1094, for a Clip segment seg of clip:                        *)
(*   offset_into_clip = seg['timeline_start'] - clip.start_time            *)
(*   source_seek_time = clip.in_point + offset_into_clip                   *)
(* with timeline_start = start_frame / fps; in ticks, times f              *)
source_seek_time_from_zero(clip, seg, f) ==
    clip.in_point * f + TicksPerSecond * seg.start_frame

source_seek_time(clip, seg, f) ==
    clip.in_point * f + (TicksPerSecond * seg.start_frame - clip.start_time * f)

(* _update_progress (lines 1278-1281): pct = int((current / total) * 100). *)
(* For every total below 50 the float computation equals the integer       *)
(* quotient; for larger totals it is equal or one below it.                *)
PercentRoundedUp(current, total) == (current * 100 + total) \div total

Percent(current, total) == (current * 100) \div total

(* the value the progress callback has seen last, after                    *)
(* _update_progress(current, total): nothing is reported for total = 0     *)
update_progress(current, total) == IF total = 0 THEN progress ELSE Percent(current, total)

(* if frames_read % 5 == 0   (line 1268) *)
ProgressEvery == 5

(* black frames owed after _stream_segment_to_encoder returned success:    *)
(* if not success or success < count: missing = count - success            *)
(* the padding skipped when nothing at all was decoded *)
MissingUnlessEmpty(success, count) ==
    IF success > 0 /\ success < count THEN count - success ELSE 0

Missing(success, count) ==
    IF success = 0 \/ success < count THEN count - success ELSE 0

(* for seg in segments: lines 1076-1079, 1091-1095 *)
NextSegment ==
    /\ pc = "segment"
    /\ IF seg_i > Len(segments)
       THEN /\ pc' = "close_encoder"
            /\ UNCHANGED <<stopVars, encVars, result, blank_i>>
       ELSE IF should_stop
       THEN /\ Return(FALSE, "Cancelled")
            /\ UNCHANGED blank_i
       ELSE IF segments[seg_i].type = "blank"
       THEN /\ pc' = "blank_check"
            /\ blank_i' = 0
            /\ UNCHANGED <<stopVars, encVars, result>>
       ELSE /\ pc' = "stream_start"
            /\ UNCHANGED <<stopVars, encVars, result, blank_i>>
    /\ UNCHANGED <<inputVars, progressVars, temp_dir, planVars, seg_i, frames_read, missing, decVars,
                   audioVars, mergeVars, fileVars, spawned, raised, ghostVars>>

(* for _ in range(count): if self.should_stop: break   (lines 1083-1084) *)
BlankCheck ==
    /\ pc = "blank_check"
    /\ IF blank_i >= segments[seg_i].count \/ should_stop
       THEN /\ seg_i' = seg_i + 1
            /\ pc' = "segment"
       ELSE /\ pc' = "blank_write"
            /\ UNCHANGED seg_i
    /\ UNCHANGED <<inputVars, progressVars, temp_dir, planVars, blank_i, frames_read, missing,
                   stopVars, encVars, decVars, audioVars, mergeVars, fileVars, spawned,
                   result, raised, ghostVars>>

(* self.encoder_process.stdin.write(black_frame)   (lines 1085-1090) *)
BlankWrite ==
    /\ pc = "blank_write"
    /\ IF EncoderWrite = "ok"
       THEN /\ black' = [black EXCEPT ![seg_i] = @ + 1]
            /\ blank_i' = blank_i + 1
            /\ frames_processed' = frames_processed + 1
            /\ progress' = update_progress(frames_processed + 1, total_frames)
            /\ pc' = "blank_check"
            /\ UNCHANGED <<stopVars, encVars, result>>
       ELSE IF EncoderWrite = "BrokenPipeError"
       THEN /\ Return(FALSE, "Encoder pipe broken (Disk full?)")
            /\ UNCHANGED <<black, blank_i, progressVars>>
       ELSE /\ pc' = "handler"
            /\ UNCHANGED <<black, blank_i, progressVars, stopVars, encVars, result>>
    /\ UNCHANGED <<inputVars, temp_dir, planVars, seg_i, frames_read, missing, decVars,
                   audioVars, mergeVars, fileVars, spawned, raised, decoded, stream_end>>

(* _stream_segment_to_encoder returns success: the caller computes missing *)
StreamReturns(success, how) ==
    /\ missing' = Missing(success, segments[seg_i].count)
    /\ stream_end' = [stream_end EXCEPT ![seg_i] = how]
    /\ pc' = "pad"

(* lines 1220-1242: probe the codec, start the decoder (Popen may raise) *)
StreamStart ==
    /\ pc = "stream_start"
    /\ \/ /\ decoder' = "running"
          /\ spawned' = spawned \cup {"probe", "decoder"}
          /\ pc' = "stream_check"
          /\ UNCHANGED <<missing, stream_end>>
       \/ /\ StreamReturns(0, "nolaunch")
          /\ decoder' = "none"
          /\ spawned' = spawned \cup {"probe"}
    /\ frames_read' = 0
    /\ UNCHANGED <<inputVars, progressVars, temp_dir, planVars, seg_i, blank_i, stopVars, encVars,
                   leaked, audioVars, mergeVars, fileVars, result, raised, decoded, black>>

(* the loop left without decoder.wait(): the decoder is still running when *)
(* the segment returns                                                     *)
StreamCheckNoWait ==
    /\ pc = "stream_check"
    /\ IF frames_read >= segments[seg_i].count
       THEN /\ StreamReturns(frames_read, "full")
            /\ UNCHANGED decoder
       ELSE IF should_stop
       THEN /\ decoder' = "killed"
            /\ StreamReturns(frames_read, "cancel")
       ELSE /\ pc' = "stream_read"
            /\ UNCHANGED <<decoder, missing, stream_end>>
    /\ UNCHANGED <<inputVars, progressVars, temp_dir, planVars, seg_i, blank_i, frames_read, stopVars,
                   encVars, leaked, audioVars, mergeVars, fileVars, spawned, result, raised,
                   decoded, black>>

(* while frames_read < frame_count: if self.should_stop: ...  (1244-1247); *)
(* after the loop: decoder.wait(); return frames_read        (1271-1272)  *)
StreamCheck ==
    /\ pc = "stream_check"
    /\ IF frames_read >= segments[seg_i].count
       THEN /\ decoder' = "exited"
            /\ StreamReturns(frames_read, "full")
       ELSE IF should_stop
       THEN /\ decoder' = "killed"
            /\ StreamReturns(frames_read, "cancel")
       ELSE /\ pc' = "stream_read"
            /\ UNCHANGED <<decoder, missing, stream_end>>
    /\ UNCHANGED <<inputVars, progressVars, temp_dir, planVars, seg_i, blank_i, frames_read, stopVars,
                   encVars, leaked, audioVars, mergeVars, fileVars, spawned, result, raised,
                   decoded, black>>

(* raw_data = decoder.stdout.read(frame_size)   (lines 1249-1259, 1271):   *)
(* a whole frame, or a short or empty read that ends the loop              *)
StreamRead ==
    /\ pc = "stream_read"
    /\ \/ /\ pc' = "stream_write"
          /\ UNCHANGED <<decoder, missing, stream_end>>
       \/ /\ decoder' = "exited"
          /\ StreamReturns(frames_read, "eof")
    /\ UNCHANGED <<inputVars, progressVars, temp_dir, planVars, seg_i, blank_i, frames_read, stopVars,
                   encVars, leaked, audioVars, mergeVars, fileVars, spawned, result, raised,
                   decoded, black>>

(* self.encoder_process.stdin.write(raw_data)   (lines 1261-1267, 1273-1276) *)
StreamWrite ==
    /\ pc = "stream_write"
    /\ IF EncoderWrite = "ok"
       THEN /\ frames_read' = frames_read + 1
            /\ progress' = (IF (frames_read + 1) % ProgressEvery = 0
                            THEN update_progress(frames_processed + frames_read + 1,
                                                 total_frames)
                            ELSE progress)
            /\ decoded' = [decoded EXCEPT ![seg_i] = @ + 1]
            /\ pc' = "stream_check"
            /\ UNCHANGED <<decoder, leaked, missing, stream_end>>
       ELSE IF EncoderWrite = "BrokenPipeError"
       THEN \* except IOError: return frames_read -- the decoder is left as it is
            /\ StreamReturns(frames_read, "ioerror")
            /\ decoder' = "none"
            /\ leaked' = leaked + 1
            /\ UNCHANGED <<frames_read, decoded, progress>>
       ELSE \* except Exception: decoder.kill(); return frames_read
            /\ StreamReturns(frames_read, "exception")
            /\ decoder' = "killed"
            /\ UNCHANGED <<frames_read, decoded, leaked, progress>>
    /\ UNCHANGED <<inputVars, frames_processed, temp_dir, planVars, seg_i, blank_i, stopVars, encVars,
                   audioVars, mergeVars, fileVars, spawned, result, raised, black>>

(* the padding loop and frames_processed += count   (lines 1102-1112) *)
Pad ==
    /\ pc = "pad"
    /\ IF missing > 0 /\ EncoderWrite = "ok"
       THEN /\ black' = [black EXCEPT ![seg_i] = @ + 1]
            /\ missing' = missing - 1
            /\ UNCHANGED <<seg_i, pc, frames_processed>>
       ELSE \* all written, or except: break
            /\ missing' = 0
            /\ seg_i' = seg_i + 1
            /\ frames_processed' = frames_processed + segments[seg_i].count
            /\ pc' = "segment"
            /\ UNCHANGED black
    /\ UNCHANGED <<inputVars, progress, temp_dir, planVars, blank_i, frames_read, stopVars,
                   encVars, decVars, audioVars, mergeVars, fileVars, spawned, result,
                   raised, decoded, stream_end>>

(* a decoder left running ends once its output pipe is gone *)
LeakedDecoderExits ==
    /\ leaked > 0
    /\ leaked' = leaked - 1
    /\ UNCHANGED <<inputVars, progressVars, pc, temp_dir, planVars, loopVars, stopVars, encVars,
                   decoder, audioVars, mergeVars, fileVars, spawned, result, raised,
                   ghostVars>>

(* lines 1114-1115: close() flushes what the 10 MB buffer of stdin still   *)
(* holds, and raises if the encoder is gone with data left in it           *)
CloseEncoder ==
    /\ pc = "close_encoder"
    /\ enc_stdin' = "closed"
    /\ \/ pc' = "wait_encoder"
       \/ /\ enc_stdin = "open"
          /\ encoder_process = "exited"
          /\ \E k \in 1..Len(segments) : decoded[k] + black[k] > 0
          /\ pc' = "handler"
    /\ UNCHANGED <<inputVars, progressVars, temp_dir, planVars, loopVars, stopVars, encoder_process,
                   enc_rc, decVars, audioVars, mergeVars, fileVars, spawned, result,
                   raised, ghostVars>>

(* the finalize wait without the look at the file after a timeout *)
WaitEncoderNoFileCheck ==
    /\ pc = "wait_encoder"
    /\ pc' = "check_encoder"
    /\ IF encoder_process # "running"
       THEN UNCHANGED encVars
       ELSE \E rc \in {-9} \cup ExitCodes(TRUE) :
               /\ encoder_process' = (IF rc = -9 THEN "killed" ELSE "exited")
               /\ enc_rc' = rc
               /\ UNCHANGED enc_stdin
    /\ UNCHANGED <<inputVars, progressVars, temp_dir, planVars, loopVars, stopVars, decVars, audioVars,
                   mergeVars, fileVars, spawned, result, raised, ghostVars>>

(* self.encoder_process.wait(timeout=60)   (lines 1120-1129): the wait     *)
(* returns once the encoder is gone; while it runs the timeout can fire    *)
WaitEncoder ==
    /\ pc = "wait_encoder"
    /\ IF encoder_process # "running"
       THEN /\ pc' = "check_encoder"
            /\ UNCHANGED <<stopVars, encVars, result>>
       ELSE \* TimeoutExpired: kill() and wait(); the encoder may have exited
            \* on its own just before the kill
            \E rc \in {-9} \cup ExitCodes(TRUE) :
               LET ep == IF rc = -9 THEN "killed" ELSE "exited"
               IN  IF temp_video # "ok"
                   THEN /\ pc' = "done"
                        /\ result' = <<FALSE, "Encoder timeout - file not created">>
                        /\ StopEffect(ep, rc)
                        /\ UNCHANGED <<user_stop, stop_pc>>
                   ELSE /\ encoder_process' = ep
                        /\ enc_rc' = rc
                        /\ pc' = "check_encoder"
                        /\ UNCHANGED <<stopVars, enc_stdin, result>>
    /\ UNCHANGED <<inputVars, progressVars, temp_dir, planVars, loopVars, decVars, audioVars,
                   mergeVars, fileVars, spawned, raised, ghostVars>>

(* the encoder's return code not looked at *)
CheckEncoderAnyExitCode ==
    /\ pc = "check_encoder"
    /\ pc' = "audio_start"
    /\ UNCHANGED <<inputVars, progressVars, temp_dir, planVars, loopVars, stopVars, encVars, decVars,
                   audioVars, mergeVars, fileVars, spawned, result, raised, ghostVars>>

(* lines 1132-1133 *)
CheckEncoder ==
    /\ pc = "check_encoder"
    /\ IF enc_rc # 0
       THEN Return(FALSE, "Encoder failed")
       ELSE /\ pc' = "audio_start"
            /\ UNCHANGED <<stopVars, encVars, result>>
    /\ UNCHANGED <<inputVars, progressVars, temp_dir, planVars, loopVars, decVars, audioVars,
                   mergeVars, fileVars, spawned, raised, ghostVars>>

(* ------------------- _render_audio: the audio pass --------------------- *)
(* _render_audio returns: audio_success = self._render_audio(...)          *)
(* (line 1136)                                                             *)
AudioReturns(ok) ==
    /\ audio_success' = ok
    /\ pc' = (IF ok = "True" THEN "merge_start" ELSE "audio_failed")

(* lines 1320-1323, 1396-1402: the audio encoder is started (Popen may raise) *)
AudioStart ==
    /\ pc = "audio_start"
    /\ \/ /\ aenc' = "running"
          /\ spawned' = spawned \cup {"audio_encoder"}
          /\ aseg_i' = 1
          /\ pc' = "audio_segment"
          /\ UNCHANGED audio_success
       \/ /\ AudioReturns("False")
          /\ UNCHANGED <<aenc, aseg_i, spawned>>
    /\ UNCHANGED <<inputVars, progressVars, temp_dir, planVars, loopVars, stopVars, encVars, decVars,
                   aenc_rc, adec, audio_written, mergeVars, fileVars, result, raised,
                   ghostVars>>

(* for seg in segments: lines 1325-1350 *)
AudioSegment ==
    /\ pc = "audio_segment"
    /\ IF aseg_i > Len(segments) \/ should_stop
       THEN /\ pc' = "audio_close"
            /\ UNCHANGED <<aenc, adec, aseg_i, audio_written, audio_success, spawned>>
       ELSE IF segments[aseg_i].type = "blank"
       THEN \* encoder.stdin.write(silence)
            IF aenc = "running"
            THEN /\ aseg_i' = aseg_i + 1
                 /\ audio_written' = TRUE
                 /\ UNCHANGED <<pc, aenc, adec, audio_success, spawned>>
            ELSE /\ AudioReturns("False")
                 /\ UNCHANGED <<aenc, adec, aseg_i, audio_written, spawned>>
       ELSE \* decoder = subprocess.Popen(cmd_dec, ...)
            \/ /\ adec' = "running"
               /\ spawned' = spawned \cup {"audio_decoder"}
               /\ pc' = "audio_read"
               /\ UNCHANGED <<aenc, aseg_i, audio_written, audio_success>>
            \/ \* Popen raises: except Exception: encoder.kill(); return False
               /\ aenc' = (IF aenc = "running" THEN "killed" ELSE aenc)
               /\ AudioReturns("False")
               /\ UNCHANGED <<adec, aseg_i, audio_written, spawned>>
    /\ UNCHANGED <<inputVars, progressVars, temp_dir, planVars, loopVars, stopVars, encVars, decVars,
                   aenc_rc, mergeVars, fileVars, result, raised, ghostVars>>

(* while True: chunk = decoder.stdout.read(4096) ...   (lines 1352-1363)   *)
AudioRead ==
    /\ pc = "audio_read"
    /\ \/ \* a chunk is read and written
          /\ aenc = "running"
          /\ ~audio_written
          /\ audio_written' = TRUE
          /\ UNCHANGED <<pc, adec, aseg_i, audio_success>>
       \/ \* not chunk: break; decoder.wait()
          /\ adec' = "exited"
          /\ aseg_i' = aseg_i + 1
          /\ pc' = "audio_segment"
          /\ UNCHANGED <<audio_written, audio_success>>
       \/ \* the write of a chunk fails: decoder.kill(); return False
          /\ aenc # "running"
          /\ adec' = "killed"
          /\ AudioReturns("False")
          /\ UNCHANGED <<aseg_i, audio_written>>
    /\ UNCHANGED <<inputVars, progressVars, temp_dir, planVars, loopVars, stopVars, encVars, decVars,
                   aenc, aenc_rc, mergeVars, fileVars, spawned, result, raised, ghostVars>>

(* encoder.stdin.close()   (line 1366) *)
AudioClose ==
    /\ pc = "audio_close"
    /\ pc' = "audio_wait"
    /\ UNCHANGED <<inputVars, progressVars, temp_dir, planVars, loopVars, stopVars, encVars, decVars,
                   audioVars, mergeVars, fileVars, spawned, result, raised, ghostVars>>

(* the audio pass looking at the return code only *)
AudioVerifiedExitCodeOnly == aenc_rc = 0

(* encoder.wait(timeout=30) and the checks after it   (lines 1369-1394) *)
AudioVerified == aenc_rc = 0 /\ temp_audio = "ok"

AudioWait ==
    /\ pc = "audio_wait"
    /\ IF aenc = "running"
       THEN \* TimeoutExpired: encoder.kill(); encoder.wait(); return False
            /\ aenc' = "killed"
            /\ aenc_rc' = -9
            /\ AudioReturns("False")
       ELSE /\ AudioReturns(IF AudioVerified THEN "True" ELSE "False")
            /\ UNCHANGED <<aenc, aenc_rc>>
    /\ UNCHANGED <<inputVars, progressVars, temp_dir, planVars, loopVars, stopVars, encVars, decVars,
                   adec, aseg_i, audio_written, mergeVars, fileVars, spawned, result,
                   raised, ghostVars>>

(* the audio encoder exits on its own *)
AudioEncoderExits ==
    /\ aenc = "running"
    /\ aenc' = "exited"
    /\ aenc_rc' \in ExitCodes(pc = "audio_wait")
    /\ UNCHANGED <<inputVars, progressVars, pc, temp_dir, planVars, loopVars, stopVars, encVars,
                   decVars, adec, aseg_i, audio_written, audio_success, mergeVars,
                   fileVars, spawned,
                   result, raised, ghostVars>>

(* the audio encoder creates its output file (a WAV header, less than 1000 *)
(* bytes) and grows it with the samples it was given                       *)
AudioEncoderWritesFile ==
    /\ aenc = "running"
    /\ temp_audio = "absent" \/ (temp_audio = "small" /\ audio_written)
    /\ temp_audio' = Grow(temp_audio)
    /\ UNCHANGED <<inputVars, progressVars, pc, temp_dir, planVars, loopVars, stopVars, encVars,
                   decVars, audioVars, mergeVars, temp_video, spawned, result, raised,
                   ghostVars>>

(* if not audio_success: remove temp_video; return False   (lines 1138-1142) *)
AudioFailed ==
    /\ pc = "audio_failed"
    /\ \/ /\ temp_video' = "absent"
          /\ Return(FALSE, "Audio rendering failed - check logs for details")
       \/ \* os.remove raises
          /\ temp_video # "absent"
          /\ pc' = "handler"
          /\ UNCHANGED <<temp_video, stopVars, encVars, result>>
    /\ UNCHANGED <<inputVars, progressVars, temp_dir, planVars, loopVars, decVars, audioVars,
                   mergeVars, temp_audio, spawned, raised, ghostVars>>

(* ----------------------- render(): the merge --------------------------- *)
(* merge_process = subprocess.Popen(merge_cmd, ...)   (lines 1161-1166) *)
MergeStart ==
    /\ pc = "merge_start"
    /\ \/ /\ merge' = "running"
          /\ spawned' = spawned \cup {"merge"}
          /\ pc' = "merge_poll"
       \/ /\ pc' = "handler"
          /\ UNCHANGED <<merge, spawned>>
    /\ UNCHANGED <<inputVars, progressVars, temp_dir, planVars, loopVars, stopVars, encVars, decVars,
                   audioVars, merge_rc, fileVars, result, raised, ghostVars>>

MergeExits ==
    /\ merge = "running"
    /\ merge' = "exited"
    /\ merge_rc' \in {0, 1}
    /\ UNCHANGED <<inputVars, progressVars, pc, temp_dir, planVars, loopVars, stopVars, encVars,
                   decVars, audioVars, fileVars, spawned, result, raised, ghostVars>>

(* the merge waited for to its end, as subprocess.run would, whatever      *)
(* should_stop says                                                        *)
MergePollWaits ==
    /\ pc = "merge_poll"
    /\ IF merge = "running"
       THEN /\ should_stop
            /\ merge' = "exited"
            /\ pc' = "cleanup"
            /\ UNCHANGED <<stopVars, encVars, result>>
       ELSE IF merge_rc # 0
       THEN /\ Return(FALSE, "Merge failed")
            /\ UNCHANGED merge
       ELSE /\ pc' = "cleanup"
            /\ UNCHANGED <<merge, stopVars, encVars, result>>
    /\ UNCHANGED <<inputVars, progressVars, temp_dir, planVars, loopVars, decVars, audioVars,
                   merge_rc, fileVars, spawned, raised, ghostVars>>

(* while merge_process.poll() is None: ...   (lines 1169-1192); a poll     *)
(* that finds the merge running and no stop request changes nothing        *)
MergePoll ==
    /\ pc = "merge_poll"
    /\ IF merge = "running"
       THEN /\ should_stop
            /\ merge' = "killed"
            /\ Return(FALSE, "Merge cancelled")
       ELSE IF merge_rc # 0
       THEN /\ Return(FALSE, "Merge failed")
            /\ UNCHANGED merge
       ELSE /\ pc' = "cleanup"
            /\ UNCHANGED <<merge, stopVars, encVars, result>>
    /\ UNCHANGED <<inputVars, progressVars, temp_dir, planVars, loopVars, decVars, audioVars,
                   merge_rc, fileVars, spawned, raised, ghostVars>>

(* lines 1197-1201: remove the intermediates, return success; a failing    *)
(* os.remove raises into the except clause                                 *)
Cleanup ==
    /\ pc = "cleanup"
    /\ \/ /\ temp_video' = "absent"
          /\ temp_audio' = "absent"
          /\ Return(TRUE, "Render Complete!")
       \/ /\ temp_video # "absent"
          /\ pc' = "handler"
          /\ UNCHANGED <<fileVars, stopVars, encVars, result>>
       \/ /\ temp_audio # "absent"
          /\ temp_video' = "absent"
          /\ pc' = "handler"
          /\ UNCHANGED <<temp_audio, stopVars, encVars, result>>
    /\ UNCHANGED <<inputVars, progressVars, temp_dir, planVars, loopVars, decVars, audioVars,
                   mergeVars, spawned, raised, ghostVars>>

(* except Exception as e: remove the intermediates; return False, str(e)   *)
(* (lines 1203-1211); a failing os.remove here leaves render() as an       *)
(* exception, after the finally clause                                     *)
Handler ==
    /\ pc = "handler"
    /\ \/ /\ temp_video' = "absent"
          /\ temp_audio' = "absent"
          /\ Return(FALSE, "exception")
          /\ UNCHANGED raised
       \/ /\ temp_video # "absent"
          /\ raised' = TRUE
          /\ pc' = "done"
          /\ StopEffect(encoder_process, enc_rc)
          /\ UNCHANGED <<fileVars, user_stop, stop_pc, result>>
       \/ /\ temp_audio # "absent"
          /\ temp_video' = "absent"
          /\ raised' = TRUE
          /\ pc' = "done"
          /\ StopEffect(encoder_process, enc_rc)
          /\ UNCHANGED <<temp_audio, user_stop, stop_pc, result>>
    /\ UNCHANGED <<inputVars, progressVars, temp_dir, planVars, loopVars, decVars, audioVars,
                   mergeVars, spawned, ghostVars>>

(* --------------------------- specification ----------------------------- *)
Next ==
    \/ RenderStart
    \/ Plan
    \/ StartEncoder
    \/ NextSegment
    \/ BlankCheck
    \/ BlankWrite
    \/ StreamStart
    \/ StreamCheck
    \/ StreamRead
    \/ StreamWrite
    \/ Pad
    \/ CloseEncoder
    \/ WaitEncoder
    \/ CheckEncoder
    \/ AudioStart
    \/ AudioSegment
    \/ AudioRead
    \/ AudioClose
    \/ AudioWait
    \/ AudioFailed
    \/ MergeStart
    \/ MergePoll
    \/ Cleanup
    \/ Handler
    \/ Stop
    \/ EncoderExits
    \/ EncoderWritesFile
    \/ LeakedDecoderExits
    \/ AudioEncoderExits
    \/ AudioEncoderWritesFile
    \/ MergeExits

Spec == Init /\ [][Next]_vars

(* ------------------- a render under a fair scheduler ------------------ *)
(* The render thread keeps running: a step of render() that does not wait  *)
(* for an external process is eventually taken, and so is a bounded wait   *)
(* (wait(timeout=...), the merge poll).  decoder.stdout.read() (lines 1249 *)
(* and 1353) returns only when the decoder delivers data or ends, which    *)
(* no scheduler promises; nor does one promise stop(), or that a process   *)
(* exits or writes its file.                                               *)
LiveInit ==
    InitState({<<Clip(0, 1, 0, 2)>>, <<Clip(0, 0, 0, 1), Clip(0, 2, 1, 2)>>}, {1},
              {[out |-> Reading("ok", 16), tmp |-> Reading("ok", 10)],
               [out |-> Reading("err", 0), tmp |-> Reading("nodir", 0)]})

NonBlockingStep ==
    \/ RenderStart
    \/ Plan
    \/ StartEncoder
    \/ NextSegment
    \/ BlankCheck
    \/ BlankWrite
    \/ StreamStart
    \/ StreamCheck
    \/ StreamWrite
    \/ Pad
    \/ CloseEncoder
    \/ WaitEncoder
    \/ CheckEncoder
    \/ AudioStart
    \/ AudioSegment
    \/ AudioClose
    \/ AudioWait
    \/ AudioFailed
    \/ MergeStart
    \/ MergePoll
    \/ Cleanup
    \/ Handler

LiveSpec == LiveInit /\ [][Next]_vars /\ WF_vars(NonBlockingStep)

(* ------------------- a render with longer segments -------------------- *)
(* timelines whose Clip segments are long enough for the progress report   *)
(* made every ProgressEvery frames: a clip of 3 s after a gap, a clip of   *)
(* 2.5 s from the start, and a timeline that is all gap                    *)
ProgressInit ==
    InitState({<<Clip(0, 1, 0, 3 * TicksPerSecond)>>,
               <<Clip(0, 0, 0, 5)>>,
               <<Clip(0, 2, 1, 1)>>}, {2},
              {[out |-> Reading("ok", 16), tmp |-> Reading("ok", 10)],
               [out |-> Reading("err", 0), tmp |-> Reading("nodir", 0)]})

ProgressSpec == ProgressInit /\ [][Next]_vars

(* ------------------------ the plan, on its own ------------------------- *)
PlanInit == InitWith(Timelines, {[out |-> Reading("ok", 16), tmp |-> Reading("ok", 16)]})

BuildPlan ==
    /\ pc = "idle"
    /\ total_frames' = TotalFrames(clips, fps)
    /\ segments' = build_render_plan(clips, TotalFrames(clips, fps), fps)
    /\ pc' = "planned"
    /\ UNCHANGED <<inputVars, progressVars, planLoopVars, temp_dir, loopVars, stopVars, encVars, decVars, audioVars,
                   mergeVars, fileVars, spawned, result, raised, ghostVars>>

PlanNext == BuildPlan

PlanSpec == PlanInit /\ [][PlanNext]_vars

(* ------------- the plan of two clips at the offered rates -------------- *)
Seconds(n) == n * TicksPerSecond

(* integer rates of timeline_fps_combo *)
ExampleFps == {24, 25, 30, 60}

(* A = (in 2 s, out 7 s) at start 0 and B = (in 0, out 3 s) at any start   *)
(* up to 6 s, on either track, in either list order                        *)
ExampleTimelines ==
    UNION { { <<Clip(ta, 0, Seconds(2), Seconds(7)), Clip(tb, sb, 0, Seconds(3))>>,
              <<Clip(tb, sb, 0, Seconds(3)), Clip(ta, 0, Seconds(2), Seconds(7))>> } :
            ta \in 0..1, tb \in 0..1, sb \in 0..Seconds(6) }

(* every two clips of which one starts at or after the end of the other *)
Apart(a, b) == b.start_time >= get_end_time(a) \/ a.start_time >= get_end_time(b)

PairTimelines ==
    { t \in [1..2 -> ClipValues] : Apart(t[1], t[2]) }

ExampleInit ==
    \/ InitState(ExampleTimelines, ExampleFps,
                 {[out |-> Reading("ok", 16), tmp |-> Reading("ok", 16)]})
    \/ InitState(PairTimelines, 1..MaxFps,
                 {[out |-> Reading("ok", 16), tmp |-> Reading("ok", 16)]})

(* _build_render_plan, one iteration of its for loop at a time *)
notPlanVars == <<inputVars, progressVars, temp_dir, loopVars, stopVars, encVars, decVars, audioVars,
                 mergeVars, fileVars, spawned, result, raised, ghostVars>>

(* lines 1062, 1066, 970-975 *)
StartPlan ==
    /\ pc = "idle"
    /\ total_frames' = TotalFrames(clips, fps)
    /\ segments' = <<>>
    /\ frame_i' = 0
    /\ cur_clip' = 0
    /\ seg_start_frame' = 0
    /\ seg_frames' = 0
    /\ pc' = "planning"
    /\ UNCHANGED notPlanVars

(* the loop closing a segment after every second of frames as well *)
PlanFrameSplitsSeconds ==
    /\ pc = "planning"
    /\ frame_i < total_frames
    /\ LET visible_clip == get_clip_at_timeline_time(clips, frame_i, fps)
       IN  IF visible_clip # cur_clip \/ seg_frames >= fps
           THEN /\ segments' = IF seg_frames > 0
                               THEN Append(segments, Segment(cur_clip,
                                                seg_start_frame, seg_frames))
                               ELSE segments
                /\ cur_clip' = visible_clip
                /\ seg_start_frame' = frame_i
                /\ seg_frames' = 1
           ELSE /\ seg_frames' = seg_frames + 1
                /\ UNCHANGED <<segments, cur_clip, seg_start_frame>>
    /\ frame_i' = frame_i + 1
    /\ UNCHANGED <<pc, total_frames, notPlanVars>>

(* for i in range(total_frames): lines 976-991 *)
PlanFrame ==
    /\ pc = "planning"
    /\ frame_i < total_frames
    /\ LET visible_clip == get_clip_at_timeline_time(clips, frame_i, fps)
       IN  IF visible_clip # cur_clip
           THEN /\ segments' = IF seg_frames > 0
                               THEN Append(segments, Segment(cur_clip,
                                                seg_start_frame, seg_frames))
                               ELSE segments
                /\ cur_clip' = visible_clip
                /\ seg_start_frame' = frame_i
                /\ seg_frames' = 1
           ELSE /\ seg_frames' = seg_frames + 1
                /\ UNCHANGED <<segments, cur_clip, seg_start_frame>>
    /\ frame_i' = frame_i + 1
    /\ UNCHANGED <<pc, total_frames, notPlanVars>>

(* after the loop: lines 992-1000 *)
PlanEnd ==
    /\ pc = "planning"
    /\ frame_i >= total_frames
    /\ segments' = IF seg_frames > 0
                   THEN Append(segments, Segment(cur_clip, seg_start_frame,
                                                 seg_frames))
                   ELSE segments
    /\ pc' = "planned"
    /\ UNCHANGED <<total_frames, planLoopVars, notPlanVars>>

ExampleNext == StartPlan \/ PlanFrame \/ PlanEnd

ExampleSpec == ExampleInit /\ [][ExampleNext]_vars

(* ----------------- scratch selection and planning ---------------------- *)
PrepInit == InitWith(RenderTimelines, AllDisks)

PrepNext == RenderStart \/ Plan

PrepSpec == PrepInit /\ [][PrepNext]_vars

(* ------------------- save_project and load_project -------------------- *)
ProjectInit ==
    InitWith(ProjectTimelines, {[out |-> Reading("ok", 16), tmp |-> Reading("ok", 16)]})

renderVars == <<pc, progressVars, temp_dir, planVars, loopVars, stopVars, encVars, decVars, audioVars,
                mergeVars, fileVars, spawned, result, raised, ghostVars>>

(* a media file is deleted or moved away *)
MediaRemoved ==
    /\ \E f \in media : media' = media \ {f}
    /\ UNCHANGED <<clips, fps, disk, project, loaded, warned, timeline_duration, appVars, engine, pipeVars, batchVars, renderVars>>

(* save_project: nothing is written for an empty timeline *)
SaveProject ==
    /\ clips # <<>>
    /\ project' = [saved |-> TRUE, clips |-> [k \in 1..Len(clips) |-> to_dict(clips[k])]]
    /\ UNCHANGED <<clips, fps, disk, media, loaded, warned, timeline_duration, appVars, engine, pipeVars, batchVars, renderVars>>

(* the clips load_project rebuilds from the first n saved dicts: a clip    *)
(* whose file does not exist is reported and left out                      *)
RECURSIVE LoadClips(_, _)
LoadClips(data, n) ==
    IF n = 0 THEN <<>>
    ELSE LET clip == from_dict(data[n])
         IN  IF clip.file_path \in media
             THEN Append(LoadClips(data, n - 1), clip)
             ELSE LoadClips(data, n - 1)

LoadProject ==
    /\ project.saved
    /\ clips' = LoadClips(project.clips, Len(project.clips))
    /\ warned' = { project.clips[k].file_path : k \in 1..Len(project.clips) } \ media
    /\ loaded' = TRUE
    /\ timeline_duration' = update_timeline_duration(LoadClips(project.clips, Len(project.clips)))
    /\ UNCHANGED <<fps, disk, project, media, appVars, engine, pipeVars, batchVars, renderVars>>

ProjectNext == MediaRemoved \/ SaveProject \/ LoadProject

ProjectSpec == ProjectInit /\ [][ProjectNext]_vars

(* ------------- TimelineExportThread: run() and stop() ------------------ *)
(* The thread was started; run() has not yet created the engine.           *)
ThreadInit ==
    InitEngineState({<<Clip(0, 1, 0, 2)>>, <<Clip(0, 0, 0, 1), Clip(0, 2, 1, 2)>>}, {1},
                    {[out |-> Reading("ok", 16), tmp |-> Reading("ok", 10)],
                     [out |-> Reading("err", 0), tmp |-> Reading("nodir", 0)]},
                    FALSE)

(* run(), lines 1420-1422: the engine is constructed (should_stop = False, *)
(* encoder_process = None, lines 918-919) and assigned to self.engine      *)
RunCreatesEngine ==
    /\ ~engine
    /\ engine' = TRUE
    /\ should_stop' = FALSE
    /\ encoder_process' = "none"
    /\ UNCHANGED <<clips, fps, disk, projectVars, appVars, pipeVars, batchVars, progressVars, pc, temp_dir,
                   planVars, loopVars, user_stop, stop_pc, enc_stdin, enc_rc, decVars,
                   audioVars, mergeVars, fileVars, spawned, result, raised, ghostVars>>

(* TimelineExportThread.stop (lines 1433-1434) while self.engine is None:  *)
(* nothing is done                                                         *)
StopBeforeEngine ==
    /\ ~engine
    /\ ~user_stop
    /\ user_stop' = TRUE
    /\ stop_pc' = pc
    /\ UNCHANGED <<inputVars, progressVars, pc, temp_dir, planVars, loopVars, should_stop,
                   encVars, decVars, audioVars, mergeVars, fileVars, spawned, result,
                   raised, ghostVars>>

ThreadNext == RunCreatesEngine \/ StopBeforeEngine \/ Next

ThreadSpec == ThreadInit /\ [][ThreadNext]_vars

(* ------- _stream_segment_to_encoder and the decoder's two pipes -------- *)
(* One call of _stream_segment_to_encoder with a decoder that never fails. *)
(* The decoder (lines 1229-1236: ffmpeg at its default log level) writes   *)
(* frame_count frames to its stdout and diagnostics to its stderr, both    *)
(* pipes (line 1242); a write to a pipe that is full blocks, a read from a *)
(* pipe that is empty blocks while the writer lives.  The pipes hold       *)
(* StdoutCapacity frames and StderrCapacity diagnostics.                   *)
PipeInit ==
    InitState({<<Clip(0, 0, 0, 2)>>}, {1},
              {[out |-> Reading("ok", 16), tmp |-> Reading("ok", 16)]})

notPipeVars == <<clips, fps, disk, projectVars, appVars, engine, batchVars, progressVars, temp_dir,
                 planVars, seg_i, blank_i, missing, stopVars, encVars, leaked, audioVars,
                 mergeVars, fileVars, spawned, result, raised, ghostVars>>

(* decoder = subprocess.Popen(cmd, stdout=PIPE, stderr=PIPE, ...), line 1242 *)
PipeStart ==
    /\ pc = "idle"
    /\ \E n \in 1..MaxFrameCount : frame_count' = n
    /\ decoder' = "running"
    /\ frames_read' = 0
    /\ dec_frames' = 0
    /\ dec_stdout' = 0
    /\ dec_stderr' = 0
    /\ dec_pending' = "none"
    /\ pc' = "stream_check"
    /\ UNCHANGED notPipeVars

(* while frames_read < frame_count: if self.should_stop: ... (1244-1247) *)
PipeCheck ==
    /\ pc = "stream_check"
    /\ IF frames_read >= frame_count
       THEN /\ pc' = "stream_wait"
            /\ UNCHANGED decoder
       ELSE IF should_stop
       THEN /\ decoder' = "killed"
            /\ pc' = "pad"
       ELSE /\ pc' = "stream_read"
            /\ UNCHANGED decoder
    /\ UNCHANGED <<frames_read, pipeVars, notPipeVars>>

(* raw_data = decoder.stdout.read(frame_size), lines 1249-1259: a frame if *)
(* the pipe holds one; nothing if the decoder is gone; else the read waits *)
PipeRead ==
    /\ pc = "stream_read"
    /\ IF dec_stdout > 0
       THEN /\ dec_stdout' = dec_stdout - 1
            /\ pc' = "stream_write"
       ELSE /\ decoder # "running"
            /\ pc' = "stream_wait"
            /\ UNCHANGED dec_stdout
    /\ UNCHANGED <<frames_read, decoder, frame_count, dec_frames, dec_stderr, dec_pending,
                   notPipeVars>>

(* the frame is written to the encoder, frames_read += 1   (1261-1267) *)
PipeWrite ==
    /\ pc = "stream_write"
    /\ frames_read' = frames_read + 1
    /\ pc' = "stream_check"
    /\ UNCHANGED <<decoder, pipeVars, notPipeVars>>

(* decoder.wait(); return frames_read   (lines 1271-1272) *)
PipeWait ==
    /\ pc = "stream_wait"
    /\ decoder # "running"
    /\ pc' = "pad"
    /\ UNCHANGED <<frames_read, decoder, pipeVars, notPipeVars>>

(* the decoder goes on to its next output: a frame while it owes one, a    *)
(* diagnostic at any time                                                  *)
DecoderBegins ==
    /\ decoder = "running"
    /\ dec_pending = "none"
    /\ \/ dec_frames < frame_count /\ dec_pending' = "frame"
       \/ dec_pending' = "diag"
    /\ UNCHANGED <<pc, frames_read, decoder, frame_count, dec_frames, dec_stdout, dec_stderr,
                   notPipeVars>>

DecoderWritesFrame ==
    /\ decoder = "running"
    /\ dec_pending = "frame"
    /\ dec_stdout < StdoutCapacity
    /\ dec_stdout' = dec_stdout + 1
    /\ dec_frames' = dec_frames + 1
    /\ dec_pending' = "none"
    /\ UNCHANGED <<pc, frames_read, decoder, frame_count, dec_stderr, notPipeVars>>

DecoderWritesDiagnostic ==
    /\ decoder = "running"
    /\ dec_pending = "diag"
    /\ dec_stderr < StderrCapacity
    /\ dec_stderr' = dec_stderr + 1
    /\ dec_pending' = "none"
    /\ UNCHANGED <<pc, frames_read, decoder, frame_count, dec_frames, dec_stdout, notPipeVars>>

(* all frames written (-vframes frame_count): the decoder exits *)
DecoderExits ==
    /\ decoder = "running"
    /\ dec_pending = "none"
    /\ dec_frames = frame_count
    /\ decoder' = "exited"
    /\ UNCHANGED <<pc, frames_read, pipeVars, notPipeVars>>

PipeStep ==
    \/ PipeCheck
    \/ PipeRead
    \/ PipeWrite
    \/ PipeWait
    \/ DecoderBegins
    \/ DecoderWritesFrame
    \/ DecoderWritesDiagnostic
    \/ DecoderExits

PipeNext == PipeStart \/ PipeStep

(* both processes are scheduled, and so is every write that has room *)
PipeSpec == PipeInit /\ [][PipeNext]_vars /\ WF_vars(PipeNext)

(* --------------------- the application: batch encoding ----------------- *)
(* start_encoding, file_done and stop_encoding run in the GUI thread, one  *)
(* handler at a time; EncodingThread.run runs in a thread of its own and   *)
(* its finished signal is queued to the GUI thread and delivered before   *)
(* the next click on a button.  Files are 0, 1, ... in list order.  At     *)
(* most MaxThreads threads are created.                                    *)
BatchInit ==
    InitState({<<>>}, {1}, {[out |-> Reading("ok", 16), tmp |-> Reading("ok", 16)]})

notBatchVars == <<clips, fps, disk, projectVars, appVars, engine, pipeVars, renderVars>>

(* add_files (lines 2642-2647) with one new file; at most MaxFiles files *)
AddFile ==
    /\ input_files < MaxFiles
    /\ input_files' = input_files + 1
    /\ UNCHANGED <<current_file_index, encoding_threads, file_signals, start_btn, stop_btn,
                   completions, notBatchVars>>

(* encoding_done (lines 2766-2776) *)
encoding_done(success) ==
    /\ start_btn' = TRUE
    /\ stop_btn' = FALSE
    /\ completions' = (IF success THEN completions + 1 ELSE completions)
    /\ current_file_index' = 0

(* encode_next (lines 2723-2746) with current_file_index = index *)
encode_next(index) ==
    IF index >= input_files
    THEN /\ encoding_done(TRUE)
         /\ UNCHANGED encoding_threads
    ELSE /\ encoding_threads' = Append(encoding_threads, [file |-> index, state |-> "running"])
         /\ start_btn' = FALSE
         /\ stop_btn' = TRUE
         /\ current_file_index' = index
         /\ UNCHANGED completions

(* start_encoding (lines 2713-2721); the output folder is set *)
start_encoding ==
    /\ start_btn
    /\ file_signals = <<>>
    /\ input_files > 0
    /\ Len(encoding_threads) < MaxThreads
    /\ encode_next(0)
    /\ UNCHANGED <<input_files, file_signals, notBatchVars>>

(* how a thread ended: what it emitted with finished *)
Ended(success) == IF success THEN "succeeded" ELSE "failed"

(* EncodingThread.run to its end (lines 1451-1478): the encode succeeded,  *)
(* or failed, or raised; finished is emitted in each case                  *)
EncodingThreadFinishes ==
    /\ \E k \in 1..Len(encoding_threads) :
          /\ encoding_threads[k].state = "running"
          /\ \E success \in BOOLEAN :
                /\ encoding_threads' = [encoding_threads EXCEPT ![k].state = Ended(success)]
                /\ file_signals' = Append(file_signals, [thread |-> k, success |-> success])
    /\ UNCHANGED <<input_files, current_file_index, start_btn, stop_btn, completions,
                   notBatchVars>>

(* file_done (lines 2748-2753), the slot of finished *)
file_done ==
    /\ file_signals # <<>>
    /\ Len(encoding_threads) < MaxThreads
    /\ file_signals' = Tail(file_signals)
    /\ IF Head(file_signals).success
       THEN encode_next(current_file_index + 1)
       ELSE /\ encoding_done(FALSE)
            /\ UNCHANGED encoding_threads
    /\ UNCHANGED <<input_files, notBatchVars>>

(* stop_encoding (lines 2755-2759): stop() and wait() on the thread, then  *)
(* encoding_done(False, "Stopped").  A thread that still runs ends inside  *)
(* wait(): it emits finished(False, ...) after the kill, or finished(True, *)
(* ...) when ffmpeg had exited with 0 and its output was read to the end   *)
(* before the loop looked at should_stop (lines 1459, 1470-1474).          *)
stop_encoding ==
    /\ stop_btn
    /\ file_signals = <<>>
    /\ IF encoding_threads # <<>> /\ encoding_threads[Len(encoding_threads)].state = "running"
       THEN \E success \in BOOLEAN :
                /\ encoding_threads' =
                      [encoding_threads EXCEPT ![Len(encoding_threads)].state = Ended(success)]
                /\ file_signals' = Append(file_signals,
                                          [thread |-> Len(encoding_threads), success |-> success])
       ELSE UNCHANGED <<encoding_threads, file_signals>>
    /\ encoding_done(FALSE)
    /\ UNCHANGED <<input_files, notBatchVars>>

BatchNext ==
    \/ AddFile
    \/ start_encoding
    \/ EncodingThreadFinishes
    \/ file_done
    \/ stop_encoding

BatchSpec == BatchInit /\ [][BatchNext]_vars

(* ----------------- the application: export sessions -------------------- *)
(* export_timeline, timeline_export_done and stop_timeline_export run in   *)
(* the GUI thread, one handler at a time; TimelineExportThread.run runs    *)
(* render() in a thread of its own.  At most MaxSessions exports are       *)
(* started.                                                                *)
AppInit ==
    InitWith(RenderTimelines, {[out |-> Reading("ok", 16), tmp |-> Reading("ok", 16)]})

notAppVars == <<clips, fps, disk, projectVars, engine, pipeVars, batchVars, renderVars>>

timeline_export_thread == Len(threads)

isRunning(k) == k > 0 /\ threads[k] = "running"

(* the export button is clicked (lines 2496-2509): a warning for an empty  *)
(* timeline, else the file dialog and the question, both modal             *)
ExportClicked ==
    /\ export_timeline_btn
    /\ ~dialog
    /\ dialog' = (Len(clips) > 0)
    /\ UNCHANGED <<export_timeline_btn, stop_export_btn, threads, posted, notAppVars>>

(* no file chosen, or the answer is not Yes *)
ExportDeclined ==
    /\ dialog
    /\ dialog' = FALSE
    /\ UNCHANGED <<export_timeline_btn, stop_export_btn, threads, posted, notAppVars>>

(* the export started with the export button left enabled *)
ExportConfirmedButtonLeftOn ==
    /\ dialog
    /\ posted = <<>>
    /\ Len(threads) < MaxSessions
    /\ dialog' = FALSE
    /\ stop_export_btn' = TRUE
    /\ threads' = Append(threads, "running")
    /\ UNCHANGED <<export_timeline_btn, posted, notAppVars>>

(* lines 2510-2520: the answer is Yes.  The event loop of the dialog has   *)
(* delivered every signal posted before the answer can be given.           *)
ExportConfirmed ==
    /\ dialog
    /\ posted = <<>>
    /\ Len(threads) < MaxSessions
    /\ dialog' = FALSE
    /\ export_timeline_btn' = FALSE
    /\ stop_export_btn' = TRUE
    /\ threads' = Append(threads, "running")
    /\ UNCHANGED <<posted, notAppVars>>

(* TimelineExportThread.run (lines 1419-1424): render() returns and        *)
(* finished is emitted, or render() raises and nothing is emitted          *)
ThreadFinishes ==
    /\ \E k \in 1..Len(threads) :
          /\ threads[k] = "running"
          /\ threads' = [threads EXCEPT ![k] = "finished"]
          /\ \/ posted' = Append(posted, k)
             \/ UNCHANGED posted
    /\ UNCHANGED <<export_timeline_btn, stop_export_btn, dialog, notAppVars>>

(* timeline_export_done (lines 2522-2531), the slot of finished *)
timeline_export_done ==
    /\ posted # <<>>
    /\ posted' = Tail(posted)
    /\ export_timeline_btn' = TRUE
    /\ stop_export_btn' = FALSE
    /\ UNCHANGED <<threads, dialog, notAppVars>>

(* stop_timeline_export (lines 2533-2552): stop(), wait(5000), and         *)
(* terminate() if the thread is still running then                         *)
stop_timeline_export ==
    /\ stop_export_btn
    /\ ~dialog
    /\ IF isRunning(timeline_export_thread)
       THEN /\ \/ /\ threads' = [threads EXCEPT ![timeline_export_thread] = "finished"]
                  /\ \/ posted' = Append(posted, timeline_export_thread)
                     \/ UNCHANGED posted
               \/ /\ threads' = [threads EXCEPT ![timeline_export_thread] = "terminated"]
                  /\ UNCHANGED posted
            /\ export_timeline_btn' = TRUE
            /\ stop_export_btn' = FALSE
       ELSE UNCHANGED <<export_timeline_btn, stop_export_btn, threads, posted>>
    /\ UNCHANGED <<dialog, notAppVars>>

AppNext ==
    \/ ExportClicked
    \/ ExportDeclined
    \/ ExportConfirmed
    \/ ThreadFinishes
    \/ timeline_export_done
    \/ stop_timeline_export

AppSpec == AppInit /\ [][AppNext]_vars

(* ------------------------------ claims --------------------------------- *)
Sum(segs) ==
    LET RECURSIVE S(_)
        S(n) == IF n = 0 THEN 0 ELSE segs[n].count + S(n - 1)
    IN  S(Len(segs))

(* C1: the plan returned by _build_render_plan is ordered by start_frame   *)
(* and tiles [0, total_frames): the first segment starts at frame 0, each  *)
(* later one starts where the previous one ends, every count is >= 1 and   *)
(* the counts sum to total_frames.                                         *)
C1_PlanTiles ==
    pc = "planned" =>
        /\ (segments # <<>> => segments[1].start_frame = 0)
        /\ \A n \in 1..Len(segments) : segments[n].count >= 1
        /\ \A n \in 2..Len(segments) :
              segments[n].start_frame = segments[n-1].start_frame + segments[n-1].count
        /\ Sum(segments) = total_frames

(* C2: for every frame i of [0, total_frames) the segment covering i is a  *)
(* Clip segment of a clip with the highest track among the clips with      *)
(* start_time <= i/fps < end_time, and a Blank segment exactly when no     *)
(* clip's interval contains i/fps.                                         *)
ActiveAt(i) ==
    { k \in 1..Len(clips) :
        /\ clips[k].start_time * fps <= TicksPerSecond * i
        /\ TicksPerSecond * i
             < (clips[k].start_time + clips[k].out_point - clips[k].in_point) * fps }

Covers(n, i) ==
    segments[n].start_frame <= i /\ i < segments[n].start_frame + segments[n].count

C2_HighestTrack ==
    pc = "planned" =>
        \A i \in 0..(total_frames - 1) :
            /\ \E n \in 1..Len(segments) : Covers(n, i)
            /\ \A n \in 1..Len(segments) :
                  Covers(n, i) =>
                     /\ (segments[n].type = "blank") <=> (ActiveAt(i) = {})
                     /\ ActiveAt(i) # {} =>
                           /\ segments[n].type = "clip"
                           /\ segments[n].clip \in ActiveAt(i)
                           /\ \A j \in ActiveAt(i) :
                                 clips[j].track <= clips[segments[n].clip].track

C2_Witness ==
    /\ pc = "planned"
    /\ \E i \in 0..(total_frames - 1) :
          /\ ActiveAt(i) = {1, 2}
          /\ clips[1].track < clips[2].track
          /\ \E n \in 1..Len(segments) : Covers(n, i) /\ segments[n].clip = 2
    /\ \E n \in 1..Len(segments) : segments[n].type = "blank"

(* C3 as stated: a Clip segment whose decoder delivered only count - k     *)
(* frames gets exactly k black frames after them, so the encoder receives  *)
(* count frames for the segment.                                           *)
DecoderEnded(n) == stream_end[n] \in {"full", "eof", "nolaunch"}

Succeeded == pc = "done" /\ Len(result) = 2 /\ result[1] = TRUE

Failed == pc = "done" /\ Len(result) = 2 /\ result[1] = FALSE

FramesWritten == Sum([n \in 1..Len(segments) |-> [count |-> decoded[n] + black[n]]])

C4_ExactFrames ==
    Succeeded =>
        /\ FramesWritten = total_frames
        /\ \A n \in 1..Len(segments) : decoded[n] + black[n] = segments[n].count

C4_Witness ==
    /\ Succeeded
    /\ total_frames >= 3
    /\ \E n \in 1..Len(segments) : decoded[n] > 0
    /\ \E n \in 1..Len(segments) : segments[n].type = "clip" /\ black[n] > 0

(* C5: stop() called while render() streams a Clip segment (first, middle  *)
(* or last) makes render() return (False, "Cancelled").                    *)
Streaming == {"stream_start", "stream_check", "stream_read", "stream_write"}

C5_CancelledFromAnyClip ==
    (pc = "done" /\ stop_pc \in Streaming) => result = <<FALSE, "Cancelled">>

(* C6: whenever render() returns success=False neither intermediate file   *)
(* exists.                                                                 *)
C6_NoIntermediatesOnFailure ==
    Failed => (temp_video = "absent" /\ temp_audio = "absent")

(* C7: the intermediates go to the destination directory exactly when it   *)
(* reports at least 15 GB free, and to the temp directory otherwise.       *)
C7_OutputDirFrom15GB ==
    temp_dir # "none" =>
        ((temp_dir = "out") <=>
            (disk.out.status = "ok" /\ disk.out.gb >= MinFreeOutputGB))

(* C8: with the temp directory selected and reporting less than 10 GB,     *)
(* render() returns (False, insufficient disk space) and has spawned no    *)
(* subprocess.                                                             *)
C8_FailFastOnLowTemp ==
    (temp_dir = "tmp" /\ disk.tmp.status = "ok" /\ disk.tmp.gb < MinFreeTempGB) =>
        /\ pc = "done"
        /\ result = <<FALSE, "Insufficient disk space">>
        /\ spawned = {}
        /\ ~raised

C8_Witness ==
    /\ temp_dir = "tmp" /\ disk.tmp.status = "ok" /\ disk.tmp.gb = 9
    /\ disk.out.status = "ok" /\ disk.out.gb = 15
    /\ Len(clips) > 0
    /\ pc = "done"

(* C9: render() always ends by returning a (bool, string) pair: no         *)
(* exception reaches the caller, and an internal exception gives           *)
(* (False, message) with the intermediates removed.                        *)
C9_AlwaysReturnsPair ==
    pc = "done" =>
        /\ ~raised
        /\ Len(result) = 2
        /\ result[1] \in BOOLEAN

(* C10: when render() returns after stop() was called, no subprocess it    *)
(* started is still running.                                               *)
C10_NothingRunsAfterStop ==
    (pc = "done" /\ user_stop) =>
        /\ encoder_process # "running"
        /\ decoder # "running"
        /\ leaked = 0
        /\ aenc # "running"
        /\ adec # "running"
        /\ merge # "running"

(* C11 as stated: after load_project the timeline holds the same multiset  *)
(* of clips as the project file that save_project wrote, field by field.   *)
Count(seq, x) == Cardinality({ k \in 1..Len(seq) : seq[k] = x })

SameMultiset(a, b) ==
    /\ Len(a) = Len(b)
    /\ \A k \in 1..Len(a) : Count(a, a[k]) = Count(b, a[k])

ClipDicts == [k \in 1..Len(clips) |-> to_dict(clips[k])]

C11_RoundTripAsStated == loaded => SameMultiset(ClipDicts, project.clips)

(* C11, amended: the reloaded clips are, in the saved order and with the   *)
(* saved fields, the saved clips whose media file still exists; with no    *)
(* file missing the multiset is the saved one.                             *)
Kept(data) == SelectSeq(data, LAMBDA e : e.file_path \notin warned)

C11_RoundTripOfExistingMedia ==
    loaded =>
        /\ ClipDicts = Kept(project.clips)
        /\ warned = {} => SameMultiset(ClipDicts, project.clips)

C11_Witness ==
    /\ loaded
    /\ warned = {}
    /\ Len(clips) = 2
    /\ clips[1] # clips[2]
    /\ \E k \in 1..2 : clips[k].out_point <= clips[k].in_point
    /\ \E k \in 1..2 : clips[k].out_point # clips[k].full_duration

(* C12: when clip B starts exactly at clip A's end, no frame from A's      *)
(* start to B's end is Blank and the frame at the boundary shows B; for    *)
(* A = (track 0, start 0, in 2, out 7), B = (track 0, start 5, in 0,       *)
(* out 3) at fps 30, total_frames = 240 and the plan is [A: 0-149]         *)
(* [B: 150-239].                                                           *)
SegmentAt(i) == CHOOSE n \in 1..Len(segments) : Covers(n, i)

FramesIn(from, to) ==
    { i \in 0..(total_frames - 1) : from * fps <= TicksPerSecond * i
                                     /\ TicksPerSecond * i < to * fps }

ExampleA == Clip(0, 0, Seconds(2), Seconds(7))

ExampleB(start) == Clip(0, start, 0, Seconds(3))

C12_AdjacentClips ==
    pc = "planned" =>
        /\ \A j, k \in 1..Len(clips) :
              (Len(clips) = 2 /\ j # k /\ clips[k].start_time = get_end_time(clips[j])) =>
                 /\ \A i \in FramesIn(clips[j].start_time, get_end_time(clips[k])) :
                       segments[SegmentAt(i)].type = "clip"
                 /\ \A i \in 0..(total_frames - 1) :
                       TicksPerSecond * i = clips[k].start_time * fps =>
                          segments[SegmentAt(i)].clip = k
        /\ (clips = <<ExampleA, ExampleB(Seconds(5))>> /\ fps = 30) =>
              /\ total_frames = 240
              /\ segments = <<Segment(1, 0, 150), Segment(2, 150, 90)>>

C12_Witness ==
    /\ pc = "planned"
    /\ clips = <<ExampleA, ExampleB(Seconds(5))>>
    /\ fps = 30
    /\ Len(segments) = 2

(* C13 as stated: a time gap between two clips yields one Blank segment    *)
(* covering exactly the frames whose time lies in the gap; for A and       *)
(* B = (start 6, in 0, out 3) at fps 30, total_frames = 270 and the plan   *)
(* is [A: 0-149][Blank: 150-179][B: 180-269].                              *)
FramesOf(n) == segments[n].start_frame..(segments[n].start_frame + segments[n].count - 1)

Gap(j, k) ==
    /\ Len(clips) = 2 /\ j # k
    /\ get_trimmed_duration(clips[j]) > 0 /\ get_trimmed_duration(clips[k]) > 0
    /\ get_end_time(clips[j]) < clips[k].start_time

GapFrames(j, k) == FramesIn(get_end_time(clips[j]), clips[k].start_time)

ExampleGapPlan ==
    (clips = <<ExampleA, ExampleB(Seconds(6))>> /\ fps = 30) =>
        /\ total_frames = 270
        /\ segments = <<Segment(1, 0, 150), Segment(0, 150, 30), Segment(2, 180, 90)>>

C13_GapAsStated ==
    pc = "planned" =>
        /\ \A j, k \in 1..Len(clips) :
              Gap(j, k) =>
                 \E n \in 1..Len(segments) :
                    segments[n].type = "blank" /\ FramesOf(n) = GapFrames(j, k)
        /\ ExampleGapPlan

(* C13, amended: the frames whose time lies in the gap are Blank, all in   *)
(* one Blank segment, which covers exactly them when the frame before the  *)
(* first shows A and the frame after the last shows B; a gap that holds no *)
(* frame time yields no Blank segment.                                     *)
Shows(i, k) ==
    i \in 0..(total_frames - 1) /\ segments[SegmentAt(i)].clip = k

C13_GapFramesAreBlank ==
    pc = "planned" =>
        /\ \A j, k \in 1..Len(clips) :
              Gap(j, k) =>
                 LET G == GapFrames(j, k)
                 IN  /\ \A i \in G : segments[SegmentAt(i)].type = "blank"
                     /\ \A i1, i2 \in G : SegmentAt(i1) = SegmentAt(i2)
                     /\ \A i \in G :
                           (\A g \in G : i <= g) /\ Shows(i - 1, j)
                           /\ (\E l \in G : (\A g \in G : g <= l) /\ Shows(l + 1, k))
                              => FramesOf(SegmentAt(i)) = G
                     /\ G = {} =>
                           \A n \in 1..Len(segments) :
                              ~(/\ segments[n].type = "blank"
                                /\ Shows(segments[n].start_frame - 1, j)
                                /\ Shows(segments[n].start_frame + segments[n].count, k))
        /\ ExampleGapPlan

C13_Witness ==
    /\ pc = "planned"
    /\ clips = <<ExampleA, ExampleB(Seconds(6))>>
    /\ fps = 30
    /\ Len(segments) = 3
    /\ segments[2].type = "blank"

(* C14: for an empty timeline the duration, total_frames and the plan are  *)
(* 0, 0 and the empty list, and render() returns a failure result without  *)
(* having started an encoder, a decoder or a merge process.                *)
C14_EmptyTimeline ==
    Len(clips) = 0 =>
        /\ get_timeline_duration(clips) = 0
        /\ TotalFrames(clips, fps) = 0
        /\ build_render_plan(clips, TotalFrames(clips, fps), fps) = <<>>
        /\ spawned = {}
        /\ pc = "done" =>
              /\ ~raised
              /\ Len(result) = 2
              /\ result[1] = FALSE

(* the phase of render() a control point belongs to; the except clause is  *)
(* on the way out of render()                                              *)
Phase(p) ==
    CASE p = "idle" -> 0
      [] p = "plan" -> 1
      [] p \in {"start_encoder", "segment", "blank_check", "blank_write", "stream_start",
                "stream_check", "stream_read", "stream_write", "pad", "close_encoder",
                "wait_encoder", "check_encoder"} -> 2
      [] p \in {"audio_start", "audio_segment", "audio_read", "audio_close", "audio_wait",
                "audio_failed"} -> 3
      [] p \in {"merge_start", "merge_poll", "cleanup"} -> 4
      [] p \in {"handler", "done"} -> 5

(* C15: render() goes through Planning, VideoEncoding, AudioEncoding and   *)
(* Muxing in this order only, never back; the audio encoder is started     *)
(* only after the video encoder exited with return code 0, the merge only  *)
(* after _render_audio returned True, and a phase is otherwise left only   *)
(* by a terminal (success, message) return.                                *)
C15_PhaseOrder ==
    [][ /\ Phase(pc') \in {Phase(pc), Phase(pc) + 1, 5}
        /\ (aenc = "none" /\ aenc' = "running") =>
              (encoder_process = "exited" /\ enc_rc = 0)
        /\ (merge = "none" /\ merge' = "running") =>
              (aenc = "exited" /\ AudioVerified)
        /\ (Phase(pc) \in {1, 2, 3, 4, 5} /\ pc # "done" /\ pc' = "done") =>
              (~raised' /\ Len(result') = 2 /\ result'[1] \in BOOLEAN) ]_vars

(* a process of the video pass, of the audio pass, is running *)
VideoPassRunning == encoder_process = "running" \/ decoder = "running" \/ leaked > 0

AudioPassRunning == aenc = "running" \/ adec = "running"

(* C16: a frame decoder or the video encoder never runs at the same time   *)
(* as an audio decoder or the audio encoder.                               *)
C16_PassesNeverOverlap == ~(VideoPassRunning /\ AudioPassRunning)

(* the audio decoder and the audio encoder run, after a video pass that    *)
(* streamed a clip to the video encoder                                    *)
C16_Witness ==
    /\ aenc = "running"
    /\ adec = "running"
    /\ "decoder" \in spawned
    /\ encoder_process = "exited"

(* C17: once stop() has been called, render() eventually returns, whatever *)
(* the external processes do.                                              *)
C17_ReturnsAfterStop == user_stop ~> (pc = "done")

(* a write of a decoded frame to the video encoder failed in segment k *)
WriteFailedIn(k) == stream_end[k] \in {"ioerror", "exception"}

(* the control points where a segment is being processed *)
SegmentWork ==
    {"blank_check", "blank_write", "stream_start", "stream_check", "stream_read",
     "stream_write"}

(* C18: a failed write to the video encoder's stdin, in a Blank or in a    *)
(* Clip segment, ends the video pass at once: no later segment is          *)
(* processed, no further frame decoder is started, and render() returns    *)
(* success = False.                                                        *)
C18_WriteFailureAborts ==
    [][ /\ (pc = "blank_write" /\ EncoderWrite # "ok" /\ pc' # pc) =>
              pc' \in {"done", "handler"}
        /\ \A k \in 1..Len(segments) :
              WriteFailedIn(k) =>
                  /\ ~(seg_i' > k /\ pc' \in SegmentWork)
                  /\ "decoder" \in spawned' => "decoder" \in spawned
                  /\ decoder' = "running" => decoder = "running"
                  /\ (pc' = "done" /\ ~raised') => result'[1] = FALSE ]_vars

(* what the checks of lines 1369-1391 reject: the audio encoder still runs *)
(* when the wait times out, a return code other than 0, a file that is     *)
(* missing or below 1000 bytes                                             *)
AudioEncoderFailed == aenc = "running" \/ aenc_rc # 0 \/ temp_audio # "ok"

(* C19: when the audio encoder times out, exits non-zero or leaves an      *)
(* audio file that is missing or below 1000 bytes, _render_audio returns   *)
(* False, and render() then returns success = False without ever starting  *)
(* the merge process.                                                      *)
C19_AudioFailureIsFatal ==
    [][ /\ (pc = "audio_wait" /\ pc' # pc /\ AudioEncoderFailed) =>
              audio_success' = "False"
        /\ (audio_success' = "False" /\ "audio_encoder" \in spawned' /\ AudioEncoderFailed') =>
              /\ merge' = "none"
              /\ "merge" \notin spawned'
              /\ pc' = "done" => (~raised' /\ Len(result') = 2 /\ result'[1] = FALSE) ]_vars

(* the finalize wait ends by its timeout: the encoder runs when it expires *)
FinalizeTimeout == pc = "wait_encoder" /\ encoder_process = "running" /\ pc' # pc

(* C20: a video encoder that has not exited when the finalize wait (60 s)  *)
(* expires is killed, and render() goes on after the timeout (and so can   *)
(* return success = True) only if the intermediate video file exists with  *)
(* at least 1000 bytes: otherwise it returns failure there and then.       *)
C20_FinalizeTimeout ==
    [][ FinalizeTimeout =>
          /\ encoder_process' \in {"killed", "exited"}
          /\ temp_video # "ok" =>
                /\ pc' = "done"
                /\ result' = <<FALSE, "Encoder timeout - file not created">> ]_vars

(* the encoder was killed by the timeout, not by stop(), and render() goes *)
(* on because the file is there                                            *)
C20_Witness ==
    /\ pc = "check_encoder"
    /\ encoder_process = "killed"
    /\ ~user_stop
    /\ temp_video = "ok"

(* the frame decoders that are running: the one of the segment being       *)
(* streamed and those a segment left behind                                *)
RunningDecoders == (IF decoder = "running" THEN 1 ELSE 0) + leaked

(* C21: at most one frame decoder runs at any time of the video pass: the  *)
(* decoder of a segment has exited or been killed before the decoder of    *)
(* the next segment is started, however _stream_segment_to_encoder ended.  *)
C21_OneDecoderAtATime == RunningDecoders <= 1

(* a step that starts the video encoder, a frame decoder, the audio        *)
(* encoder, an audio decoder or the merge process                          *)
Spawns ==
    \/ encoder_process = "none" /\ encoder_process' = "running"
    \/ pc = "stream_start" /\ decoder' = "running"
    \/ aenc = "none" /\ aenc' = "running"
    \/ pc = "audio_segment" /\ adec' = "running"
    \/ merge = "none" /\ merge' = "running"

(* C22: once should_stop is set, render() starts no further subprocess.    *)
C22_NoSpawnAfterStop == [][Spawns => ~should_stop]_vars

(* the step by which render() returns (False, "Cancelled") *)
ReturnsCancelled == pc # "done" /\ pc' = "done" /\ result' = <<FALSE, "Cancelled">>

(* C23: when render() returns the Cancelled result, the frame decoder was *)
(* killed, the encoder's input was closed (by stop(), at the latest in the *)
(* finally clause) and the encoder was waited for under a timeout: the     *)
(* return is taken from the finalize wait.                                 *)
C23_CancelUnwinds ==
    [][ ReturnsCancelled =>
          /\ RunningDecoders' = 0
          /\ enc_stdin' = "closed"
          /\ pc \in {"wait_encoder", "check_encoder"} ]_vars

(* the export threads that are running *)
RunningThreads == { k \in 1..Len(threads) : threads[k] = "running" }

(* C24: at most one TimelineExportThread runs at any time, and while one   *)
(* runs the export button is disabled.                                     *)
C24_OneSessionAtATime ==
    /\ Cardinality(RunningThreads) <= 1
    /\ RunningThreads # {} => ~export_timeline_btn

(* a second export runs after the first was stopped by terminate() *)
C24_Witness ==
    /\ Len(threads) >= 2
    /\ threads[1] = "terminated"
    /\ threads[Len(threads)] = "running"

(* C25: every clip the constructor or from_dict has built has out_point    *)
(* after in_point, so a positive trimmed duration and an end time after    *)
(* its start time.                                                         *)
C25_OutAfterIn ==
    \A k \in 1..Len(clips) :
        /\ clips[k].out_point > clips[k].in_point
        /\ get_trimmed_duration(clips[k]) > 0
        /\ get_end_time(clips[k]) > clips[k].start_time

(* the frame decoder of some Clip segment failed to launch *)
DecoderLaunchFailed == \E k \in 1..Len(stream_end) : stream_end[k] = "nolaunch"

(* C26: a process that fails to launch makes render() return               *)
(* success = False; here for the frame decoder of a Clip segment: a render *)
(* in which one failed to launch does not return success = True.           *)
C26_LaunchFailureIsFatal ==
    (pc = "done" /\ DecoderLaunchFailed /\ Len(result) = 2) => result[1] = FALSE

(* a poll of the merge that finds it running, after stop() *)
PollsAfterStop == pc = "merge_poll" /\ merge = "running" /\ should_stop /\ pc' # pc

(* C27: the poll that finds the merge process running and should_stop set  *)
(* kills the merge and returns (False, "Merge cancelled"), without waiting *)
(* for the merge to end.                                                   *)
C27_MergeCancelled ==
    [][ PollsAfterStop =>
          /\ merge' = "killed"
          /\ pc' = "done"
          /\ result' = <<FALSE, "Merge cancelled">> ]_vars

(* render() has returned "Merge cancelled" with the merge killed *)
C27_Witness ==
    /\ pc = "done"
    /\ user_stop
    /\ stop_pc = "merge_poll"
    /\ merge = "killed"
    /\ result = <<FALSE, "Merge cancelled">>

(* C28: every value passed to the progress callback is an integer in       *)
(* 0..100, and a value reported during the video pass is never below the   *)
(* one reported before it.                                                 *)
C28_ProgressInRange ==
    [][ /\ progress' # None => progress' \in 0..100
        /\ progress # None => progress' >= progress ]_vars

(* progress was reported from inside a Clip segment, after the frames of   *)
(* the segment before it                                                   *)
C28_Witness ==
    /\ pc = "stream_check"
    /\ frames_processed > 0
    /\ frames_read = ProgressEvery
    /\ progress = Percent(frames_processed + frames_read, total_frames)
    /\ progress > 0

(* the source time of frame j of a Clip segment, in ticks, times fps *)
SourceTime(n, j) == source_seek_time(clips[segments[n].clip], segments[n], fps) + TicksPerSecond * j

C30_SegmentsMaximal ==
    \A n \in 1..(Len(segments) - 1) :
        /\ ~(segments[n].type = "blank" /\ segments[n + 1].type = "blank")
        /\ (segments[n].type = "clip" /\ segments[n + 1].type = "clip")
               => segments[n].clip # segments[n + 1].clip

(* a clip shown in two segments of several frames with another clip        *)
(* between them                                                            *)
C30_Witness ==
    \E n \in 1..(Len(segments) - 2) :
        /\ segments[n].type = "clip"
        /\ segments[n + 1].type = "clip"
        /\ segments[n + 2].clip = segments[n].clip
        /\ segments[n].count > 1
        /\ segments[n + 2].count > 1

(* the clip list in another order: p is a bijection on its indices *)
Reordered(cl, p) == [k \in 1..Len(cl) |-> cl[p[k]]]

Orders(cl) == { p \in [1..Len(cl) -> 1..Len(cl)] : \A a, b \in 1..Len(cl) : p[a] = p[b] => a = b }

(* a plan with each segment's clip given by its fields, not by its place   *)
(* in the list                                                             *)
PlanOfClips(cl, f) ==
    LET plan == build_render_plan(cl, TotalFrames(cl, f), f)
    IN  [n \in 1..Len(plan) |->
            [ type |-> plan[n].type,
              clip |-> IF plan[n].clip = 0 THEN <<>> ELSE <<cl[plan[n].clip]>>,
              start_frame |-> plan[n].start_frame,
              count |-> plan[n].count ]]

(* C31: the plan is the same for every order of the clip list, clips that  *)
(* overlap on one track included.                                          *)
C31_PlanIgnoresOrder ==
    pc = "planned" =>
        \A p \in Orders(clips) : PlanOfClips(Reordered(clips, p), fps) = PlanOfClips(clips, fps)

(* the same, for clip lists in which no two clips of one track overlap *)
SameTrackOverlap(cl) ==
    \E a, b \in 1..Len(cl) :
        /\ a # b
        /\ cl[a].track = cl[b].track
        /\ cl[a].start_time < get_end_time(cl[b])
        /\ cl[b].start_time < get_end_time(cl[a])

C31_PlanIgnoresOrderWithoutOverlap ==
    (pc = "planned" /\ ~SameTrackOverlap(clips)) =>
        \A p \in Orders(clips) : PlanOfClips(Reordered(clips, p), fps) = PlanOfClips(clips, fps)

(* the latest end of a clip, 0 for no clips *)
MaxEnd(cl) ==
    IF cl = <<>> THEN 0
    ELSE CHOOSE e \in { get_end_time(cl[k]) : k \in 1..Len(cl) } :
            \A k \in 1..Len(cl) : get_end_time(cl[k]) <= e

(* C32: the engine's duration, the timeline widget's duration and the      *)
(* application's timeline_duration are all the latest end of a clip, and 0 *)
(* for an empty timeline.                                                  *)
C32_DurationsAgree ==
    /\ get_timeline_duration(clips) = MaxEnd(clips)
    /\ TimelineWidget_get_timeline_duration(clips) = MaxEnd(clips)
    /\ timeline_duration = MaxEnd(clips)

(* the same for clips that all end after they begin *)
C32_DurationsAgreeOnProperClips ==
    (\A k \in 1..Len(clips) : clips[k].out_point > clips[k].in_point) => C32_DurationsAgree

(* what does hold: the engine and the widget agree *)
C32_EngineAndWidgetAgree ==
    /\ get_timeline_duration(clips) = MaxEnd(clips)
    /\ TimelineWidget_get_timeline_duration(clips) = MaxEnd(clips)

(* render() returns success=True in this step *)
ReturnsSuccess == result = <<>> /\ Len(result') = 2 /\ result'[1] = TRUE

(* C33: render() returns success=True only if the video encoder exited     *)
(* with return code 0, the audio pass verified its output (return code 0,  *)
(* the file present with at least 1000 bytes) and the merge exited with    *)
(* return code 0; on that return both intermediate files are removed.      *)
C33_SuccessMeansAllPassed ==
    [][ ReturnsSuccess =>
            /\ encoder_process = "exited" /\ enc_rc = 0
            /\ audio_success = "True"
            /\ aenc = "exited" /\ aenc_rc = 0 /\ temp_audio = "ok"
            /\ merge = "exited" /\ merge_rc = 0
            /\ temp_video' = "absent" /\ temp_audio' = "absent"
            /\ encoder_process' = "exited" /\ enc_rc' = 0 ]_vars

(* a render of a timeline with a clip and a gap returned success *)
C33_Witness ==
    /\ pc = "done"
    /\ Len(result) = 2
    /\ result[1] = TRUE
    /\ Len(segments) >= 2
    /\ temp_video = "absent"
    /\ temp_audio = "absent"

(* where the render thread is between the start of the video encoder and   *)
(* the spawn of the merge                                                  *)
AfterEncoderBeforeMerge ==
    {"segment", "blank_check", "blank_write", "stream_start", "stream_check",
     "stream_read", "stream_write", "pad", "close_encoder", "wait_encoder",
     "check_encoder", "audio_start", "audio_segment", "audio_read", "audio_close",
     "audio_wait", "audio_failed", "merge_start"}

(* C34: when stop() was called after the video encoder was started and     *)
(* before the merge was spawned, render() does not return success=True.    *)
C34_StopPreventsSuccess ==
    [][ ReturnsSuccess => ~(user_stop /\ stop_pc \in AfterEncoderBeforeMerge) ]_vars

(* what does hold: a stop() that arrives while the video pass runs, or     *)
(* before the audio loop looked at should_stop for its last segment        *)
C34_StopInVideoPassPreventsSuccess ==
    [][ ReturnsSuccess => ~(user_stop /\ Phase(stop_pc) = 2 /\ stop_pc # "start_encoder") ]_vars

(* C35: a stop request made through TimelineExportThread.stop() while the  *)
(* thread runs sets the engine's cancellation flag, also when it is made   *)
(* before run() has created the engine: once the engine exists and a stop  *)
(* was requested, should_stop is set.                                      *)
C35_StopRequestSetsFlag == (engine /\ user_stop) => should_stop

(* what does hold: a request made once the engine exists sets the flag *)
C35_StopRequestAfterEngineSetsFlag ==
    [][ (engine /\ ~user_stop /\ user_stop') => should_stop' ]_vars

(* inside the call of _stream_segment_to_encoder *)
InStreamCall == pc \in {"stream_check", "stream_read", "stream_write", "stream_wait"}

(* C36: the decode loop cannot deadlock: while the call has not returned,  *)
(* the loop or the decoder can take a step.                                *)
C36_NoDeadlock == InStreamCall => ENABLED PipeStep

(* C36, the other half: the call reads all frame_count frames and returns  *)
C36_ReadsAllAndReturns ==
    (pc = "stream_check" /\ frames_read = 0) ~> (pc = "pad" /\ frames_read = frame_count)

(* what does hold: the call never returns with fewer frames than asked *)
C36_ReturnsOnlyWithAllFrames == pc = "pad" => frames_read = frame_count

(* what the decoder wrote when nothing can move *)
C36_DeadlockOnlyOnFullStderr ==
    (InStreamCall /\ ~ENABLED PipeStep) => (dec_pending = "diag" /\ dec_stderr = StderrCapacity)

RunningEncodingThreads ==
    { k \in 1..Len(encoding_threads) : encoding_threads[k].state = "running" }

(* a thread is created in this step, and the file it encodes *)
ThreadStarted == Len(encoding_threads') > Len(encoding_threads)

StartedFile == encoding_threads'[Len(encoding_threads')].file

(* the batch was ended by a failure or by stop_encoding, or is complete *)
BatchEnded == start_btn

(* C37: batch encoding takes the files one at a time in list order: at     *)
(* most one EncodingThread runs; the first file is started by              *)
(* start_encoding and file i+1 only by the success report of file i in a   *)
(* batch that was not ended by a failure or a stop; completion is reported *)
(* only on the success report of the last file of such a batch.            *)
C37_BatchOneAtATime ==
    /\ [](Cardinality(RunningEncodingThreads) <= 1)
    /\ [][ ThreadStarted =>
              \/ BatchEnded /\ file_signals = <<>> /\ StartedFile = 0
              \/ /\ ~BatchEnded
                 /\ file_signals # <<>>
                 /\ Head(file_signals).success
                 /\ encoding_threads[Head(file_signals).thread].file + 1 = StartedFile ]_vars
    /\ [][ completions' > completions =>
              /\ ~BatchEnded
              /\ file_signals # <<>>
              /\ Head(file_signals).success
              /\ encoding_threads[Head(file_signals).thread].file + 1 = input_files ]_vars

(* the parts of C37 one by one *)
C37_OneThreadAtATime == Cardinality(RunningEncodingThreads) <= 1

C37_NoStartAfterBatchEnded ==
    [][ ThreadStarted => (~BatchEnded \/ (file_signals = <<>> /\ StartedFile = 0)) ]_vars

C37_NextOnlyAfterSuccess ==
    [][ (ThreadStarted /\ file_signals # <<>>) =>
            /\ Head(file_signals).success
            /\ encoding_threads[Head(file_signals).thread].file + 1 = StartedFile ]_vars

C37_FailureEndsBatch ==
    [][ (file_signals # <<>> /\ file_signals' = Tail(file_signals)
            /\ ~Head(file_signals).success) => (~ThreadStarted /\ start_btn') ]_vars

C37_CompletionOnlyAfterAllSucceeded ==
    [][ completions' > completions =>
            \A f \in 0..(input_files - 1) :
                \E k \in 1..Len(encoding_threads) :
                    /\ encoding_threads[k].file = f
                    /\ encoding_threads[k].state = "succeeded" ]_vars

====
